---- MODULE Spec2Model ----
(***************************************************************************)
(* CHI-Grants: the workflow ledger (scripts/workflow_manager.py).          *)
(*                                                                         *)
(* The ledger is the file workflows/workflow_status.json; every operation  *)
(* of WorkflowManager loads it, changes the mapping in memory and writes   *)
(* it back.  The model keeps the file as the sequence of chunks json.dump  *)
(* writes, the Python dict as a sequence of key/value entries in insertion *)
(* order, and the state directories as a set of (directory, name) pairs.   *)
(***************************************************************************)
EXTENDS Integers, Sequences, FiniteSets, TLC

VARIABLES
    status_file,      \* workflows/workflow_status.json: [exists, text]
    files,            \* the documents on disk: set of <<directory, name>>
    now,              \* the value datetime.now() returns
    last,             \* history: the last call, what it returned, how it ended
    ops,              \* the number of calls made so far
    last_transition,  \* history: per filename, new_state of the last
                      \*   transition_state call that returned True since the
                      \*   name was registered
    old_state,        \* history: old_state of the last transition_state call
    procs,            \* the processes sharing the ledger: per process the
                      \*   call it is in and the ledger file as it read it
    batch,            \* history: limit, pending_files and what happened
                      \*   to each document (DocInputs) in the last
                      \*   process_pending_documents
    results,          \* what the last process_pending_documents returned
    outputs,          \* the files in workflows/extracted
    grant,            \* the GrantData handed to GrantDataValidator.validate
    validation,       \* how that call of validate ended
    ai_response,      \* the response handed to parse_ai_response
    parsed            \* how that call of parse_ai_response ended

vars ==
    <<status_file, files, now, ops, last, last_transition, old_state, procs,
      batch, results, outputs, grant, validation, ai_response, parsed>>

----------------------------------------------------------------------------
(* Bounds and input sets *)

MaxClock == 2

MaxOps == 5

None == "None"

Filenames == {"a.pdf", "b.pdf"}

\* str ordering of the file names ("a.pdf" < "b.pdf")
NameRank == [n \in Filenames |-> IF n = "a.pdf" THEN 1 ELSE 2]

PendingDir == "intake/pending"

\* the filepath arguments of register_document
FilePaths ==
    {[dir |-> PendingDir, name |-> n] : n \in Filenames}
        \cup {[dir |-> "uploads", name |-> "a.pdf"]}

EmptyMeta == "{}"

MetaArgs == {None, "m1"}

ErrorArgs == {None, "bad format"}

\* str(e) of the OSError a failing mkdir / shutil.move raises
MoveErrorMsg == "[Errno 13] Permission denied"

----------------------------------------------------------------------------
(* WorkflowState and the state directories *)

WorkflowState ==
    {"PENDING", "PROCESSING", "EXTRACTED", "VALIDATED", "APPROVED",
     "COMPLETED", "ERROR"}

\* s.value
StateValue(s) ==
    CASE s = "PENDING"    -> "pending"
      [] s = "PROCESSING" -> "processing"
      [] s = "EXTRACTED"  -> "extracted"
      [] s = "VALIDATED"  -> "validated"
      [] s = "APPROVED"   -> "approved"
      [] s = "COMPLETED"  -> "completed"
      [] s = "ERROR"      -> "error"

\* WorkflowState(value)
StateOfValue(v) == CHOOSE s \in WorkflowState : StateValue(s) = v

\* state_dirs with a directory for COMPLETED as well
state_dirs_with_completed ==
    [s \in {"PENDING", "PROCESSING", "EXTRACTED", "VALIDATED", "APPROVED",
            "COMPLETED"} |->
        CASE s = "PENDING"    -> "intake/pending"
          [] s = "PROCESSING" -> "intake/processing"
          [] s = "EXTRACTED"  -> "workflows/extracted"
          [] s = "VALIDATED"  -> "workflows/validated"
          [] s = "APPROVED"   -> "workflows/approved"
          [] s = "COMPLETED"  -> "workflows/completed"]

state_dirs ==
    [s \in {"PENDING", "PROCESSING", "EXTRACTED", "VALIDATED", "APPROVED"} |->
        CASE s = "PENDING"    -> "intake/pending"
          [] s = "PROCESSING" -> "intake/processing"
          [] s = "EXTRACTED"  -> "workflows/extracted"
          [] s = "VALIDATED"  -> "workflows/validated"
          [] s = "APPROVED"   -> "workflows/approved"]

\* self.state_dirs.get(state)
StateDirGet(state) ==
    IF state \in DOMAIN state_dirs THEN state_dirs[state] ELSE None

----------------------------------------------------------------------------
(* Python dict: entries in insertion order *)

DictKeys(d) == {d[i].key : i \in 1..Len(d)}

DictIndex(d, k) == CHOOSE i \in 1..Len(d) : d[i].key = k

\* d.get(k)
DictGet(d, k) == IF k \in DictKeys(d) THEN d[DictIndex(d, k)].val ELSE None

\* d[k] = v that never looks for the key
DictSetAppend(d, k, v) == Append(d, [key |-> k, val |-> v])

\* d[k] = v: an existing key keeps its position, a new key goes last
DictSet(d, k, v) ==
    IF k \in DictKeys(d)
    THEN [d EXCEPT ![DictIndex(d, k)] = [key |-> k, val |-> v]]
    ELSE Append(d, [key |-> k, val |-> v])

\* list(d.values())
DictValues(d) == [i \in 1..Len(d) |-> d[i].val]

----------------------------------------------------------------------------
(* The ledger file *)

\* Path(filepath).name
PathName(filepath) == filepath.name

\* datetime.isoformat / datetime.fromisoformat
isoformat(t) == <<"T", t>>

fromisoformat(s) == s[2]

\* the dict of one DocumentInfo written without its error_message
ToJsonWithoutErrorMessage(doc) ==
    [filename      |-> doc.filename,
     original_path |-> doc.original_path,
     current_state |-> StateValue(doc.current_state),
     created_at    |-> isoformat(doc.created_at),
     updated_at    |-> isoformat(doc.updated_at),
     metadata      |-> doc.metadata,
     error_message |-> None]

\* the dict save_workflow_status builds for one DocumentInfo
ToJson(doc) ==
    [filename      |-> doc.filename,
     original_path |-> doc.original_path,
     current_state |-> StateValue(doc.current_state),
     created_at    |-> isoformat(doc.created_at),
     updated_at    |-> isoformat(doc.updated_at),
     metadata      |-> doc.metadata,
     error_message |-> doc.error_message]

\* the DocumentInfo get_workflow_status builds from one entry
FromJson(data) ==
    [filename      |-> data.filename,
     original_path |-> data.original_path,
     current_state |-> StateOfValue(data.current_state),
     created_at    |-> fromisoformat(data.created_at),
     updated_at    |-> fromisoformat(data.updated_at),
     metadata      |-> data.metadata,
     error_message |-> data.error_message]

NoEntry == [filename |-> None]

OpenChunk == [tok |-> "{", key |-> None, data |-> NoEntry]

CloseChunk == [tok |-> "}", key |-> None, data |-> NoEntry]

\* json.dump(status_data, f): the text, chunk by chunk
JsonDump(status_data) ==
    <<OpenChunk>>
      \o [i \in 1..Len(status_data) |->
            [tok |-> "entry", key |-> status_data[i].key,
             data |-> status_data[i].val]]
      \o <<CloseChunk>>

\* whether json.load accepts the text
JsonValid(text) ==
    /\ Len(text) >= 2
    /\ text[1].tok = "{"
    /\ text[Len(text)].tok = "}"
    /\ \A i \in 2..(Len(text) - 1) : text[i].tok = "entry"

\* json.load(f) of a valid text
JsonLoad(text) ==
    [i \in 1..(Len(text) - 2) |->
        [key |-> text[i + 1].key, val |-> text[i + 1].data]]

NoFile == [exists |-> FALSE, text |-> <<>>]

get_workflow_status(file) ==
    IF ~file.exists THEN <<>>
    ELSE IF ~JsonValid(file.text) THEN <<>>
    ELSE LET status_data == JsonLoad(file.text)
         IN  [i \in 1..Len(status_data) |->
                [key |-> status_data[i].key,
                 val |-> FromJson(status_data[i].val)]]

\* the text save_workflow_status writes
StatusText(workflow_status) ==
    JsonDump([i \in 1..Len(workflow_status) |->
                [key |-> workflow_status[i].key,
                 val |-> ToJson(workflow_status[i].val)]])

save_workflow_status(workflow_status) ==
    [exists |-> TRUE, text |-> StatusText(workflow_status)]

\* open(status_file, 'w') empties the file, json.dump then writes it chunk
\* by chunk; a write error or a crash after k chunks leaves that prefix
save_interrupted(workflow_status, k) ==
    [exists |-> TRUE, text |-> SubSeq(StatusText(workflow_status), 1, k)]

----------------------------------------------------------------------------
(* WorkflowManager: the operations as functions of the file and the disk *)

RetTrue == "True"

RetFalse == "False"

\* the DocumentInfo register_document creates
NewDocument(filepath, metadata, t) ==
    [filename      |-> PathName(filepath),
     original_path |-> filepath,
     current_state |-> "PENDING",
     created_at    |-> t,
     updated_at    |-> t,
     metadata      |-> IF metadata = None THEN EmptyMeta ELSE metadata,
     error_message |-> None]

\* the mapping register_document saves
RegisterDocument(file, filepath, metadata, t) ==
    DictSet(get_workflow_status(file), PathName(filepath),
            NewDocument(filepath, metadata, t))

\* transition_state without the assignment to current_state
TransitionedDocumentKeepsState(doc_info, new_state, error_message, t) ==
    [doc_info EXCEPT !.updated_at = t,
                     !.error_message = error_message]

\* transition_state emptying the metadata of the record as well
TransitionedDocumentResetsMetadata(doc_info, new_state, error_message, t) ==
    [doc_info EXCEPT !.current_state = new_state,
                     !.updated_at = t,
                     !.error_message = error_message,
                     !.metadata = EmptyMeta]

\* the DocumentInfo transition_state writes back
TransitionedDocument(doc_info, new_state, error_message, t) ==
    [doc_info EXCEPT !.current_state = new_state,
                     !.updated_at = t,
                     !.error_message = error_message]

\* transition_state without the check that the filename is known
TransitionStateIgnoresMissing(file, filename, new_state, error_message, t) ==
    LET workflow_status == get_workflow_status(file)
    IN  IF filename \notin DictKeys(workflow_status)
        THEN [file |-> save_workflow_status(workflow_status), ret |-> RetTrue]
        ELSE LET doc_info ==
                     TransitionedDocument(DictGet(workflow_status, filename),
                                          new_state, error_message, t)
             IN  [file |-> save_workflow_status(
                               DictSet(workflow_status, filename, doc_info)),
                  ret  |-> RetTrue]

\* transition_state treating COMPLETED as a final state
TransitionStateCompletedIsFinal(file, filename, new_state, error_message, t) ==
    LET workflow_status == get_workflow_status(file)
    IN  IF \/ filename \notin DictKeys(workflow_status)
           \/ DictGet(workflow_status, filename).current_state = "COMPLETED"
        THEN [file |-> file, ret |-> RetFalse]
        ELSE LET doc_info ==
                     TransitionedDocument(DictGet(workflow_status, filename),
                                          new_state, error_message, t)
             IN  [file |-> save_workflow_status(
                               DictSet(workflow_status, filename, doc_info)),
                  ret  |-> RetTrue]

\* transition_state: the file afterwards and the value returned
TransitionState(file, filename, new_state, error_message, t) ==
    LET workflow_status == get_workflow_status(file)
    IN  IF filename \notin DictKeys(workflow_status)
        THEN [file |-> file, ret |-> RetFalse]
        ELSE LET doc_info ==
                     TransitionedDocument(DictGet(workflow_status, filename),
                                          new_state, error_message, t)
             IN  [file |-> save_workflow_status(
                               DictSet(workflow_status, filename, doc_info)),
                  ret  |-> RetTrue]

\* shutil.move(from_path, to_path)
ShutilMove(fs, from_dir, to_dir, filename) ==
    (fs \ {<<from_dir, filename>>}) \cup {<<to_dir, filename>>}

\* whether the call reaches mkdir and shutil.move, which can raise
MoveFaults(fs, filename, from_state, to_state) ==
    IF /\ StateDirGet(from_state) # None
       /\ StateDirGet(to_state) # None
       /\ <<StateDirGet(from_state), filename>> \in fs
    THEN BOOLEAN ELSE {FALSE}

\* move_document: the file and the disk afterwards, the value returned, how
\* the call ended, and the new_state of the transition it recorded (if any).
\* move_fails: mkdir or shutil.move raises.
MoveDocument(file, fs, filename, from_state, to_state, move_fails, t) ==
    LET from_dir == StateDirGet(from_state)
        to_dir   == StateDirGet(to_state)
    IN  IF from_dir = None \/ to_dir = None
        THEN [file |-> file, files |-> fs, ret |-> RetFalse,
              outcome |-> "invalid_state", transition |-> None]
        ELSE IF <<from_dir, filename>> \notin fs
        THEN [file |-> file, files |-> fs, ret |-> RetFalse,
              outcome |-> "source_missing", transition |-> None]
        ELSE IF move_fails
        THEN LET r == TransitionState(file, filename, "ERROR",
                                      MoveErrorMsg, t)
             IN  [file |-> r.file, files |-> fs, ret |-> RetFalse,
                  outcome |-> "move_error",
                  transition |-> IF r.ret = RetTrue THEN "ERROR" ELSE None]
        ELSE LET r == TransitionState(file, filename, to_state, None, t)
             IN  [file |-> r.file,
                  files |-> ShutilMove(fs, from_dir, to_dir, filename),
                  ret |-> RetTrue, outcome |-> "moved",
                  transition |-> IF r.ret = RetTrue THEN to_state ELSE None]

list_documents_by_state(file, state) ==
    LET InState(doc) == doc.current_state = state
    IN  SelectSeq(DictValues(get_workflow_status(file)), InState)

\* list.sort(key=lambda x: x.created_at): stable, so a document goes behind
\* every earlier document whose created_at is not larger
RECURSIVE SortByCreatedAt(_)
SortByCreatedAt(documents) ==
    IF documents = <<>> THEN <<>>
    ELSE LET rest == SortByCreatedAt(SubSeq(documents, 1, Len(documents) - 1))
             doc  == documents[Len(documents)]
             k    == Cardinality({i \in 1..Len(rest) :
                                    rest[i].created_at <= doc.created_at})
         IN  SubSeq(rest, 1, k) \o <<doc>> \o SubSeq(rest, k + 1, Len(rest))

DefaultLimit == 10

Min(a, b) == IF a < b THEN a ELSE b

get_next_documents_for_processing(file, state, limit) ==
    LET documents == SortByCreatedAt(list_documents_by_state(file, state))
    IN  [i \in 1..Min(limit, Len(documents)) |-> documents[i].filename]

\* the loop of cleanup_error_documents over error_docs
RECURSIVE CleanupLoop(_, _, _)
CleanupLoop(file, error_docs, t) ==
    IF error_docs = <<>> THEN [file |-> file, reset |-> {}]
    ELSE LET r    == TransitionState(file, error_docs[1].filename,
                                     "PENDING", None, t)
             rest == CleanupLoop(r.file, Tail(error_docs), t)
         IN  [file  |-> rest.file,
              reset |-> rest.reset \cup
                          (IF r.ret = RetTrue
                           THEN {error_docs[1].filename} ELSE {})]

\* cleanup_error_documents leaving its loop after the first document
CleanupErrorDocumentsFirstOnly(file, t) ==
    LET error_docs == list_documents_by_state(file, "ERROR")
    IN  CleanupLoop(file, SubSeq(error_docs, 1, Min(1, Len(error_docs))), t)

CleanupErrorDocuments(file, t) ==
    CleanupLoop(file, list_documents_by_state(file, "ERROR"), t)

----------------------------------------------------------------------------
(* ai_agents/data_models.py: the values an ExtractedField carries.  A      *)
(* Python value is kept with its type; a str is the sequence of its        *)
(* characters, so that float() and datetime.fromisoformat() parse it.      *)

PyNone == [type |-> "NoneType", num |-> 0, chars |-> <<>>]

PyInt(n) == [type |-> "int", num |-> n, chars |-> <<>>]

PyStr(chars) == [type |-> "str", num |-> 0, chars |-> chars]

\* bool(value): None, 0 and "" are false
Truthy(value) ==
    CASE value.type = "int" -> value.num # 0
      [] value.type = "str" -> value.chars # <<>>
      [] OTHER -> FALSE

DigitChars == {"0", "1", "2", "3", "4", "5", "6", "7", "8", "9"}

DigitValue(c) ==
    CASE c = "0" -> 0 [] c = "1" -> 1 [] c = "2" -> 2 [] c = "3" -> 3
      [] c = "4" -> 4 [] c = "5" -> 5 [] c = "6" -> 6 [] c = "7" -> 7
      [] c = "8" -> 8 [] c = "9" -> 9

AllDigits(chars) ==
    /\ chars # <<>>
    /\ \A i \in 1..Len(chars) : chars[i] \in DigitChars

RECURSIVE DigitsNumber(_)
DigitsNumber(chars) ==
    IF chars = <<>> THEN 0
    ELSE 10 * DigitsNumber(SubSeq(chars, 1, Len(chars) - 1))
           + DigitValue(chars[Len(chars)])

\* float(value) of an int or of a str of digits with an optional sign;
\* any other str raises ValueError
float(value) ==
    CASE value.type = "int" -> [exception |-> None, num |-> value.num]
      [] value.type = "str" /\ AllDigits(value.chars) ->
             [exception |-> None, num |-> DigitsNumber(value.chars)]
      [] /\ value.type = "str"
         /\ value.chars # <<>>
         /\ value.chars[1] = "-"
         /\ AllDigits(Tail(value.chars)) ->
             [exception |-> None, num |-> 0 - DigitsNumber(Tail(value.chars))]
      [] value.type = "str" -> [exception |-> "ValueError", num |-> 0]
      [] OTHER -> [exception |-> "TypeError", num |-> 0]

IsLeap(year) ==
    /\ year % 4 = 0
    /\ (year % 100 # 0 \/ year % 400 = 0)

DaysInMonth(year, month) ==
    CASE month \in {4, 6, 9, 11} -> 30
      [] month = 2 -> IF IsLeap(year) THEN 29 ELSE 28
      [] OTHER -> 31

\* datetime.fromisoformat(value) of a "YYYY-MM-DD" str: the date as a
\* number that orders as the dates do; ValueError for a str that is no
\* date, TypeError for a value that is no str
datetime_fromisoformat(value) ==
    IF value.type # "str"
    THEN [exception |-> "TypeError", date |-> 0]
    ELSE LET c == value.chars
         IN  IF /\ Len(c) = 10
                /\ c[5] = "-"
                /\ c[8] = "-"
                /\ AllDigits(SubSeq(c, 1, 4))
                /\ AllDigits(SubSeq(c, 6, 7))
                /\ AllDigits(SubSeq(c, 9, 10))
             THEN LET year  == DigitsNumber(SubSeq(c, 1, 4))
                      month == DigitsNumber(SubSeq(c, 6, 7))
                      day   == DigitsNumber(SubSeq(c, 9, 10))
                  IN  IF /\ year >= 1
                         /\ month \in 1..12
                         /\ day \in 1..DaysInMonth(year, month)
                      THEN [exception |-> None,
                            date |-> year * 10000 + month * 100 + day]
                      ELSE [exception |-> "ValueError", date |-> 0]
             ELSE [exception |-> "ValueError", date |-> 0]

ConfidenceLevel == {"high", "medium", "low", "uncertain"}

\* an attribute holding None
NoField ==
    [class |-> "NoneType", value |-> PyNone, confidence |-> None,
     name |-> PyNone]

ExtractedField(value, confidence) ==
    [class |-> "ExtractedField", value |-> value,
     confidence |-> confidence, name |-> PyNone]

\* a TeamMember has a name and a role and no attribute `value`; the model
\* keeps the value of its name
TeamMember(name_value) ==
    [class |-> "TeamMember", value |-> PyNone, confidence |-> None,
     name |-> name_value]

\* bool(obj) of None or of a dataclass instance
IsSet(obj) == obj.class # "NoneType"

Timeline(project_start_date, project_end_date) ==
    [application_date   |-> NoField,
     award_date         |-> NoField,
     project_start_date |-> project_start_date,
     project_end_date   |-> project_end_date]

\* ProjectInfo(): the abstract
ProjectInfo == [abstract |-> NoField]

BudgetFields ==
    <<"personnel", "equipment", "travel", "supplies", "indirect_costs",
      "other">>

BudgetSummary(total, personnel, equipment) ==
    [personnel |-> personnel, equipment |-> equipment, travel |-> NoField,
     supplies |-> NoField, indirect_costs |-> NoField, other |-> NoField,
     total |-> total]

\* a message of a flag list: the text and the figures or names put into it
Message(text, nums, names) == [text |-> text, nums |-> nums, names |-> names]

ValidationFlags ==
    [missing_required_fields   |-> <<>>,
     inconsistent_dates        |-> <<>>,
     budget_calculation_errors |-> <<>>,
     suspicious_values         |-> <<>>,
     needs_human_review        |-> FALSE]

\* GrantData(): every field at its default
GrantData ==
    [grant_id               |-> NoField,
     grant_name             |-> NoField,
     funding_agency         |-> NoField,
     award_amount           |-> NoField,
     grant_type             |-> NoField,
     timeline               |-> Timeline(NoField, NoField),
     principal_investigator |-> NoField,
     project                |-> ProjectInfo,
     budget                 |-> BudgetSummary(NoField, NoField, NoField),
     current_status         |-> NoField,
     progress_notes         |-> NoField,
     validation_flags       |-> ValidationFlags]

----------------------------------------------------------------------------
(* GrantDataValidator.validate *)

REQUIRED_FIELDS ==
    <<"grant_id", "grant_name", "funding_agency", "award_amount",
      "principal_investigator">>

\* the loop over REQUIRED_FIELDS: `not field_value or not
\* field_value.value`; reading .value of an object that is set and is no
\* ExtractedField raises AttributeError and ends the call
RECURSIVE RequiredFieldsLoop(_, _, _)
RequiredFieldsLoop(grant_data, field_names, missing) ==
    IF field_names = <<>>
    THEN [exception |-> None, missing |-> missing]
    ELSE LET field_name  == Head(field_names)
             field_value == grant_data[field_name]
         IN  IF ~IsSet(field_value)
             THEN RequiredFieldsLoop(grant_data, Tail(field_names),
                                     Append(missing, field_name))
             ELSE IF field_value.class # "ExtractedField"
             THEN [exception |-> "AttributeError", missing |-> missing]
             ELSE IF ~Truthy(field_value.value)
             THEN RequiredFieldsLoop(grant_data, Tail(field_names),
                                     Append(missing, field_name))
             ELSE RequiredFieldsLoop(grant_data, Tail(field_names), missing)

\* the date check flagging only a start date after the end date
DateConsistencyStrictlyAfter(timeline) ==
    IF /\ IsSet(timeline.project_start_date)
       /\ IsSet(timeline.project_end_date)
       /\ Truthy(timeline.project_start_date.value)
       /\ Truthy(timeline.project_end_date.value)
    THEN LET start_date ==
                 datetime_fromisoformat(timeline.project_start_date.value)
             end_date ==
                 datetime_fromisoformat(timeline.project_end_date.value)
             first_exception ==
                 IF start_date.exception # None THEN start_date.exception
                 ELSE end_date.exception
         IN  CASE first_exception = "ValueError" ->
                      [exception |-> None,
                       messages |->
                           <<Message("Invalid date format", <<>>, <<>>)>>]
               [] first_exception = "TypeError" ->
                      [exception |-> "TypeError", messages |-> <<>>]
               [] OTHER ->
                      [exception |-> None,
                       messages |->
                           IF start_date.date > end_date.date
                           THEN <<Message(
                                    "Project start date is after end date",
                                    <<>>, <<>>)>>
                           ELSE <<>>]
    ELSE [exception |-> None, messages |-> <<>>]

\* the date check: ValueError is caught and becomes a message, any other
\* exception of fromisoformat leaves validate
DateConsistency(timeline) ==
    IF /\ IsSet(timeline.project_start_date)
       /\ IsSet(timeline.project_end_date)
       /\ Truthy(timeline.project_start_date.value)
       /\ Truthy(timeline.project_end_date.value)
    THEN LET start_date ==
                 datetime_fromisoformat(timeline.project_start_date.value)
             end_date ==
                 datetime_fromisoformat(timeline.project_end_date.value)
             first_exception ==
                 IF start_date.exception # None THEN start_date.exception
                 ELSE end_date.exception
         IN  CASE first_exception = "ValueError" ->
                      [exception |-> None,
                       messages |->
                           <<Message("Invalid date format", <<>>, <<>>)>>]
               [] first_exception = "TypeError" ->
                      [exception |-> "TypeError", messages |-> <<>>]
               [] OTHER ->
                      [exception |-> None,
                       messages |->
                           IF start_date.date >= end_date.date
                           THEN <<Message(
                                    "Project start date is after end date",
                                    <<>>, <<>>)>>
                           ELSE <<>>]
    ELSE [exception |-> None, messages |-> <<>>]

\* calculated_total: the components that are set, have a true value and
\* that float() accepts
RECURSIVE CalculatedTotal(_, _)
CalculatedTotal(budget, field_names) ==
    IF field_names = <<>> THEN 0
    ELSE LET field_value == budget[Head(field_names)]
             rest        == CalculatedTotal(budget, Tail(field_names))
         IN  IF /\ IsSet(field_value)
                /\ Truthy(field_value.value)
                /\ float(field_value.value).exception = None
             THEN float(field_value.value).num + rest
             ELSE rest

Abs(x) == IF x < 0 THEN 0 - x ELSE x

BudgetTolerance == 1000

BudgetCalculationErrors(budget) ==
    IF IsSet(budget.total) /\ Truthy(budget.total.value)
    THEN LET total            == float(budget.total.value)
             calculated_total == CalculatedTotal(budget, BudgetFields)
         IN  IF total.exception # None
             THEN <<Message("Invalid budget total format", <<>>, <<>>)>>
             ELSE IF Abs(total.num - calculated_total) > BudgetTolerance
             THEN <<Message("Budget total doesn't match sum of components",
                            <<total.num, calculated_total>>, <<>>)>>
             ELSE <<>>
    ELSE <<>>

AwardThreshold == 50000000

SuspiciousAwardAmount(award_amount) ==
    IF IsSet(award_amount) /\ Truthy(award_amount.value)
    THEN LET amount == float(award_amount.value)
         IN  IF amount.exception # None
             THEN <<Message("Award amount is not a valid number",
                            <<>>, <<>>)>>
             ELSE IF amount.num <= 0
             THEN <<Message("Award amount is zero or negative", <<>>, <<>>)>>
             ELSE IF amount.num > AwardThreshold
             THEN <<Message("Award amount seems unusually high",
                            <<>>, <<>>)>>
             ELSE <<>>
    ELSE <<>>

\* the attributes of GrantData that can hold an ExtractedField, in the order
\* of grant_data.__dict__
ExtractedFieldAttributes ==
    <<"grant_id", "grant_name", "funding_agency", "award_amount",
      "grant_type", "current_status", "progress_notes">>

RECURSIVE LowConfidenceFields(_, _)
LowConfidenceFields(grant_data, field_names) ==
    IF field_names = <<>> THEN <<>>
    ELSE LET field_value == grant_data[Head(field_names)]
             rest == LowConfidenceFields(grant_data, Tail(field_names))
         IN  IF /\ field_value.class = "ExtractedField"
                /\ field_value.confidence \in {"low", "uncertain"}
             THEN <<Head(field_names)>> \o rest
             ELSE rest

\* one entry for each low-confidence field
LowConfidenceMessagePerField(grant_data) ==
    LET low_confidence_fields ==
            LowConfidenceFields(grant_data, ExtractedFieldAttributes)
    IN  [i \in 1..Len(low_confidence_fields) |->
            Message("Low confidence extraction for", <<>>,
                    <<low_confidence_fields[i]>>)]

\* one entry for the fields of LOW confidence and one for the UNCERTAIN ones
LowConfidenceMessagePerLevel(grant_data) ==
    LET Fields(level) ==
            SelectSeq(LowConfidenceFields(grant_data,
                                          ExtractedFieldAttributes),
                      LAMBDA field_name :
                          grant_data[field_name].confidence = level)
        Entry(level) ==
            IF Fields(level) # <<>>
            THEN <<Message("Low confidence extraction for", <<>>,
                           Fields(level))>>
            ELSE <<>>
    IN  Entry("low") \o Entry("uncertain")

LowConfidenceMessage(grant_data) ==
    LET low_confidence_fields ==
            LowConfidenceFields(grant_data, ExtractedFieldAttributes)
    IN  IF low_confidence_fields # <<>>
        THEN <<Message("Low confidence extraction for", <<>>,
                       low_confidence_fields)>>
        ELSE <<>>

\* the verdict computed without the missing required fields
NeedsHumanReviewIgnoresMissing(missing, dates, budget_errors, suspicious) ==
    \/ dates # <<>>
    \/ budget_errors # <<>>
    \/ Len(suspicious) > 2

NeedsHumanReview(missing, dates, budget_errors, suspicious) ==
    \/ missing # <<>>
    \/ dates # <<>>
    \/ budget_errors # <<>>
    \/ Len(suspicious) > 2

\* what a call of validate ends with: the flags it returns or the exception
\* that leaves it
Returned(flags) ==
    [outcome |-> "returned", exception |-> None, flags |-> flags]

Raised(exception) ==
    [outcome |-> "raised", exception |-> exception,
     flags |-> ValidationFlags]

validate(grant_data) ==
    LET required == RequiredFieldsLoop(grant_data, REQUIRED_FIELDS, <<>>)
        dates    == DateConsistency(grant_data.timeline)
    IN  IF required.exception # None THEN Raised(required.exception)
        ELSE IF dates.exception # None THEN Raised(dates.exception)
        ELSE LET budget_errors ==
                     BudgetCalculationErrors(grant_data.budget)
                 suspicious ==
                     SuspiciousAwardAmount(grant_data.award_amount)
                         \o LowConfidenceMessage(grant_data)
             IN  Returned(
                     [missing_required_fields   |-> required.missing,
                      inconsistent_dates        |-> dates.messages,
                      budget_calculation_errors |-> budget_errors,
                      suspicious_values         |-> suspicious,
                      needs_human_review        |->
                          NeedsHumanReview(required.missing, dates.messages,
                                           budget_errors, suspicious)])

----------------------------------------------------------------------------
(* The response of the AI collaborator.  A response is a text that is no   *)
(* JSON, or the JSON document it spells; a JSON value has the kind of the  *)
(* Python object json.loads builds, the characters of a str, and the       *)
(* entries of a dict or the elements of a list.                            *)

JsonNull == [kind |-> "null", num |-> 0, chars |-> <<>>, items |-> <<>>]

JsonNumber(n) == [kind |-> "number", num |-> n, chars |-> <<>>, items |-> <<>>]

JsonString(chars) ==
    [kind |-> "string", num |-> 0, chars |-> chars, items |-> <<>>]

JsonArray(elements) ==
    [kind |-> "array", num |-> 0, chars |-> <<>>,
     items |-> [i \in 1..Len(elements) |->
                   [key |-> None, val |-> elements[i]]]]

\* members: a dict of the model, entries in insertion order
JsonObject(members) ==
    [kind |-> "object", num |-> 0, chars |-> <<>>, items |-> members]

\* the characters of the keys and of the confidence levels the code names
Spelling ==
    [word \in {"grant_id", "grant_name", "funding_agency", "award_amount",
               "grant_type", "timeline", "principal_investigator",
               "project", "budget", "project_start_date",
               "project_end_date", "application_date", "award_date",
               "name", "role", "abstract", "personnel", "equipment",
               "travel", "total", "value", "confidence", "high", "medium",
               "low", "uncertain"} |->
        CASE word = "grant_id" -> <<"g", "r", "a", "n", "t", "_", "i", "d">>
          [] word = "grant_name" ->
                 <<"g", "r", "a", "n", "t", "_", "n", "a", "m", "e">>
          [] word = "funding_agency" ->
                 <<"f", "u", "n", "d", "i", "n", "g", "_", "a", "g", "e",
                   "n", "c", "y">>
          [] word = "award_amount" ->
                 <<"a", "w", "a", "r", "d", "_", "a", "m", "o", "u", "n",
                   "t">>
          [] word = "grant_type" ->
                 <<"g", "r", "a", "n", "t", "_", "t", "y", "p", "e">>
          [] word = "timeline" -> <<"t", "i", "m", "e", "l", "i", "n", "e">>
          [] word = "principal_investigator" ->
                 <<"p", "r", "i", "n", "c", "i", "p", "a", "l", "_", "i",
                   "n", "v", "e", "s", "t", "i", "g", "a", "t", "o", "r">>
          [] word = "project" -> <<"p", "r", "o", "j", "e", "c", "t">>
          [] word = "budget" -> <<"b", "u", "d", "g", "e", "t">>
          [] word = "project_start_date" ->
                 <<"p", "r", "o", "j", "e", "c", "t", "_", "s", "t", "a",
                   "r", "t", "_", "d", "a", "t", "e">>
          [] word = "project_end_date" ->
                 <<"p", "r", "o", "j", "e", "c", "t", "_", "e", "n", "d",
                   "_", "d", "a", "t", "e">>
          [] word = "application_date" ->
                 <<"a", "p", "p", "l", "i", "c", "a", "t", "i", "o", "n",
                   "_", "d", "a", "t", "e">>
          [] word = "award_date" ->
                 <<"a", "w", "a", "r", "d", "_", "d", "a", "t", "e">>
          [] word = "name" -> <<"n", "a", "m", "e">>
          [] word = "role" -> <<"r", "o", "l", "e">>
          [] word = "abstract" -> <<"a", "b", "s", "t", "r", "a", "c", "t">>
          [] word = "personnel" ->
                 <<"p", "e", "r", "s", "o", "n", "n", "e", "l">>
          [] word = "equipment" ->
                 <<"e", "q", "u", "i", "p", "m", "e", "n", "t">>
          [] word = "travel" -> <<"t", "r", "a", "v", "e", "l">>
          [] word = "total" -> <<"t", "o", "t", "a", "l">>
          [] word = "value" -> <<"v", "a", "l", "u", "e">>
          [] word = "confidence" ->
                 <<"c", "o", "n", "f", "i", "d", "e", "n", "c", "e">>
          [] word = "high" -> <<"h", "i", "g", "h">>
          [] word = "medium" -> <<"m", "e", "d", "i", "u", "m">>
          [] word = "low" -> <<"l", "o", "w">>
          [] word = "uncertain" ->
                 <<"u", "n", "c", "e", "r", "t", "a", "i", "n">>]

\* word in text, for two str: word occurs in text
Substring(word, text) ==
    \E i \in 0..(Len(text) - Len(word)) :
        SubSeq(text, i + 1, i + Len(word)) = word

\* `key in container`: a key of a dict, an element of a list, a part of a
\* str; TypeError for None and for a number
In(key, container) ==
    CASE container.kind = "object" ->
             [exception |-> None, found |-> key \in DictKeys(container.items)]
      [] container.kind = "array" ->
             [exception |-> None,
              found |-> \E i \in 1..Len(container.items) :
                            /\ container.items[i].val.kind = "string"
                            /\ container.items[i].val.chars = Spelling[key]]
      [] container.kind = "string" ->
             [exception |-> None,
              found |-> Substring(Spelling[key], container.chars)]
      [] OTHER -> [exception |-> "TypeError", found |-> FALSE]

\* container.get(key, default) of a dict
JsonGet(container, key, default) ==
    IF key \in DictKeys(container.items)
    THEN DictGet(container.items, key) ELSE default

\* the Python value of a JSON value that is no list and no dict
PyValue(json) ==
    CASE json.kind = "null" -> PyNone
      [] json.kind = "number" -> PyInt(json.num)
      [] json.kind = "string" -> PyStr(json.chars)
      [] json.kind = "array" -> [type |-> "list", num |-> 0, chars |-> <<>>]
      [] json.kind = "object" -> [type |-> "dict", num |-> 0, chars |-> <<>>]

\* str.lower() of the letters the confidence levels are written with
LowerChar(c) ==
    CASE c = "A" -> "a" [] c = "C" -> "c" [] c = "D" -> "d" [] c = "E" -> "e"
      [] c = "G" -> "g" [] c = "H" -> "h" [] c = "I" -> "i" [] c = "L" -> "l"
      [] c = "M" -> "m" [] c = "N" -> "n" [] c = "O" -> "o" [] c = "R" -> "r"
      [] c = "T" -> "t" [] c = "U" -> "u" [] c = "W" -> "w" [] OTHER -> c

lower(chars) == [i \in 1..Len(chars) |-> LowerChar(chars[i])]

\* confidence_map.get(confidence_str.lower(), ConfidenceLevel.UNCERTAIN)
confidence_map_get(chars) ==
    IF \E level \in ConfidenceLevel : Spelling[level] = chars
    THEN CHOOSE level \in ConfidenceLevel : Spelling[level] = chars
    ELSE "uncertain"

\* create_field(value, confidence_str): None for a null value; .lower() of
\* a confidence that is no str raises AttributeError
create_field(value, confidence_str) ==
    IF value.kind = "null"
    THEN [exception |-> None, field |-> NoField]
    ELSE IF confidence_str.kind # "string"
    THEN [exception |-> "AttributeError", field |-> NoField]
    ELSE [exception |-> None,
          field |-> ExtractedField(
                        PyValue(value),
                        confidence_map_get(lower(confidence_str.chars)))]

\* `if key in container: ... create_field(container[key].get("value"),
\* container[key].get("confidence", "uncertain"))`: whether the key was
\* found, the field made, and the exception that ends the call: TypeError
\* when container is None or a number or is a list or str holding the key,
\* AttributeError when container[key] is no dict
ExtractField(container, key) ==
    LET found == In(key, container)
    IN  IF found.exception # None
        THEN [exception |-> found.exception, found |-> FALSE,
              field |-> NoField]
        ELSE IF ~found.found
        THEN [exception |-> None, found |-> FALSE, field |-> NoField]
        ELSE IF container.kind # "object"
        THEN [exception |-> "TypeError", found |-> TRUE, field |-> NoField]
        ELSE IF DictGet(container.items, key).kind # "object"
        THEN [exception |-> "AttributeError", found |-> TRUE,
              field |-> NoField]
        ELSE LET item    == DictGet(container.items, key)
                 created ==
                     create_field(
                         JsonGet(item, "value", JsonNull),
                         JsonGet(item, "confidence",
                                 JsonString(Spelling["uncertain"])))
             IN  [exception |-> created.exception, found |-> TRUE,
                  field |-> created.field]

\* what has been parsed so far: the GrantData being filled and the
\* exception that ended the call, if any
Parsing(grant_data) == [exception |-> None, grant_data |-> grant_data]

BasicFields ==
    <<"grant_id", "grant_name", "funding_agency", "award_amount",
      "grant_type">>

\* the five `if key in data: grant_data.key = create_field(...)`
RECURSIVE BasicFieldsLoop(_, _, _)
BasicFieldsLoop(parsing, data, field_names) ==
    IF field_names = <<>> \/ parsing.exception # None
    THEN parsing
    ELSE BasicFieldsLoop(
             [parsing EXCEPT
                 !.exception =
                     ExtractField(data, Head(field_names)).exception,
                 !.grant_data[Head(field_names)] =
                     IF ExtractField(data, Head(field_names)).found
                     THEN ExtractField(data, Head(field_names)).field
                     ELSE @],
             data, Tail(field_names))

\* the loop over the fields of a section: setattr(grant_data.section,
\* field, create_field(...)) for each field in section_data
RECURSIVE SectionFieldsLoop(_, _, _, _)
SectionFieldsLoop(parsing, section_data, section, field_names) ==
    IF field_names = <<>> \/ parsing.exception # None
    THEN parsing
    ELSE SectionFieldsLoop(
             [parsing EXCEPT
                 !.exception =
                     ExtractField(section_data, Head(field_names)).exception,
                 !.grant_data[section][Head(field_names)] =
                     IF ExtractField(section_data, Head(field_names)).found
                     THEN ExtractField(section_data,
                                       Head(field_names)).field
                     ELSE @],
             section_data, section, Tail(field_names))

\* `if section in data: section_data = data[section]`
SectionData(data, section) ==
    LET found == In(section, data)
    IN  IF found.exception # None
        THEN [exception |-> found.exception, found |-> FALSE,
              section_data |-> JsonNull]
        ELSE IF ~found.found
        THEN [exception |-> None, found |-> FALSE, section_data |-> JsonNull]
        ELSE IF data.kind # "object"
        THEN [exception |-> "TypeError", found |-> TRUE,
              section_data |-> JsonNull]
        ELSE [exception |-> None, found |-> TRUE,
              section_data |-> DictGet(data.items, section)]

\* a section of the response: timeline, project or budget
ExtractSection(parsing, data, section, empty, field_names) ==
    IF parsing.exception # None THEN parsing
    ELSE LET opened == SectionData(data, section)
         IN  IF opened.exception # None
             THEN [parsing EXCEPT !.exception = opened.exception]
             ELSE IF ~opened.found THEN parsing
             ELSE SectionFieldsLoop(
                      [parsing EXCEPT !.grant_data[section] = empty],
                      opened.section_data, section, field_names)

\* pi_data.get("role", {}).get("value", "Principal Investigator") and
\* .get("confidence", "high"): the role of the TeamMember
InvestigatorRole(pi_data) ==
    LET role == JsonGet(pi_data, "role", JsonObject(<<>>))
    IN  IF role.kind # "object"
        THEN [exception |-> "AttributeError", field |-> NoField]
        ELSE create_field(
                 JsonGet(role, "value",
                         JsonString(<<"P", "r", "i", "n", "c", "i", "p",
                                      "a", "l", " ", "I", "n", "v", "e",
                                      "s", "t", "i", "g", "a", "t", "o",
                                      "r">>)),
                 JsonGet(role, "confidence", JsonString(Spelling["high"])))

\* the principal investigator: a TeamMember is made when pi_data has a
\* name, whatever the value of the name
ExtractInvestigator(parsing, data) ==
    IF parsing.exception # None THEN parsing
    ELSE LET opened == SectionData(data, "principal_investigator")
             name   == ExtractField(opened.section_data, "name")
         IN  IF opened.exception # None
             THEN [parsing EXCEPT !.exception = opened.exception]
             ELSE IF ~opened.found THEN parsing
             ELSE IF name.exception # None
             THEN [parsing EXCEPT !.exception = name.exception]
             ELSE IF ~name.found THEN parsing
             ELSE IF InvestigatorRole(opened.section_data).exception # None
             THEN [parsing EXCEPT
                      !.exception =
                          InvestigatorRole(opened.section_data).exception]
             ELSE [parsing EXCEPT
                      !.grant_data.principal_investigator =
                          TeamMember(name.field.value)]

TimelineFields ==
    <<"project_start_date", "project_end_date", "application_date",
      "award_date">>

ParsedBudgetFields == <<"personnel", "equipment", "travel", "total">>

\* json.loads(response)
json_loads(response) ==
    IF response.syntax = "invalid"
    THEN [exception |-> "JSONDecodeError", data |-> JsonNull]
    ELSE [exception |-> None, data |-> response.data]

\* parse_ai_response: the GrantData it returns or the exception that
\* leaves it; only json.JSONDecodeError is caught
parse_ai_response(response) ==
    LET loaded  == json_loads(response)
        basic   == BasicFieldsLoop(Parsing(GrantData), loaded.data,
                                   BasicFields)
        dated   == ExtractSection(basic, loaded.data, "timeline",
                                  Timeline(NoField, NoField), TimelineFields)
        led     == ExtractInvestigator(dated, loaded.data)
        project == ExtractSection(led, loaded.data, "project", ProjectInfo,
                                  <<"abstract">>)
        budget  == ExtractSection(project, loaded.data, "budget",
                                  BudgetSummary(NoField, NoField, NoField),
                                  ParsedBudgetFields)
    IN  IF loaded.exception # None
        THEN [outcome |-> "returned", exception |-> None,
              grant_data |-> GrantData]
        ELSE IF budget.exception # None
        THEN [outcome |-> "raised", exception |-> budget.exception,
              grant_data |-> GrantData]
        ELSE [outcome |-> "returned", exception |-> None,
              grant_data |-> budget.grant_data]

----------------------------------------------------------------------------
(* ai_agents/ai_extraction_agent.py: AIExtractionAgent *)

ProcessingDir == "intake/processing"

ProcessedDir == "intake/processed"

\* the default limit of process_pending_documents
BatchLimit == 5

\* a leaf of the response: {"value": ..., "confidence": ...}
JsonField(value, confidence) ==
    JsonObject(<<[key |-> "value", val |-> value],
                 [key |-> "confidence", val |-> confidence]>>)

\* the response of _simulate_ai_response (the texts cut short)
SimulatedResponse ==
    [syntax |-> "valid",
     data |->
         JsonObject(
             <<[key |-> "grant_id",
                val |-> JsonField(JsonString(<<"S", "I", "M">>),
                                  JsonString(Spelling["medium"]))],
               [key |-> "grant_name",
                val |-> JsonField(JsonString(<<"S", "i", "m">>),
                                  JsonString(Spelling["high"]))],
               [key |-> "funding_agency",
                val |-> JsonField(JsonString(<<"S", "F">>),
                                  JsonString(Spelling["high"]))],
               [key |-> "award_amount",
                val |-> JsonField(JsonNumber(100000),
                                  JsonString(Spelling["medium"]))],
               [key |-> "grant_type",
                val |-> JsonField(JsonString(<<"R">>),
                                  JsonString(Spelling["high"]))],
               [key |-> "principal_investigator",
                val |-> JsonObject(
                            <<[key |-> "name",
                               val |-> JsonField(
                                           JsonString(<<"D", "r">>),
                                           JsonString(Spelling["high"]))],
                              [key |-> "role",
                               val |-> JsonField(
                                           JsonString(<<"P", "I">>),
                                           JsonString(Spelling["high"]))]>>)],
               [key |-> "timeline",
                val |-> JsonObject(
                            <<[key |-> "project_start_date",
                               val |-> JsonField(
                                           JsonString(
                                               <<"2", "0", "2", "4", "-",
                                                 "0", "1", "-", "0", "1">>),
                                           JsonString(Spelling["low"]))],
                              [key |-> "project_end_date",
                               val |-> JsonField(
                                           JsonString(
                                               <<"2", "0", "2", "6", "-",
                                                 "1", "2", "-", "3", "1">>),
                                           JsonString(Spelling["low"]))]>>)],
               [key |-> "project",
                val |-> JsonObject(
                            <<[key |-> "abstract",
                               val |-> JsonField(
                                           JsonString(<<"T">>),
                                           JsonString(Spelling["high"]))]>>)],
               [key |-> "budget",
                val |-> JsonObject(
                            <<[key |-> "total",
                               val |-> JsonField(
                                           JsonNumber(100000),
                                           JsonString(
                                               Spelling["medium"]))]>>)]>>)]

\* the GrantData parse_ai_response builds from that response
SimulatedGrantData == parse_ai_response(SimulatedResponse).grant_data

\* what the model of a call decides for one document: whether its text can
\* be read and is blank, the GrantData parsed from the AI response, and
\* whether saving the result or renaming the document raises
DocInputs ==
    {[text |-> "unreadable", grant_data |-> GrantData, fault |-> "none"],
     [text |-> "blank", grant_data |-> GrantData, fault |-> "none"],
     [text |-> "text", grant_data |-> SimulatedGrantData, fault |-> "none"],
     [text |-> "text", grant_data |-> GrantData, fault |-> "none"],
     [text |-> "text", grant_data |-> GrantData, fault |-> "save"],
     [text |-> "text", grant_data |-> GrantData, fault |-> "rename"]}

\* process_document: (success, message)
process_document(input) ==
    IF input.text = "unreadable"
    THEN [success |-> FALSE,
          message |-> "Document processing failed: Error extracting text"]
    ELSE IF input.text = "blank"
    THEN [success |-> FALSE, message |-> "No text extracted from document"]
    ELSE LET validated == validate(input.grant_data)
         IN  IF validated.outcome = "raised"
             THEN [success |-> FALSE,
                   message |->
                       IF validated.exception = "AttributeError"
                       THEN "Document processing failed: 'TeamMember' object has no attribute 'value'"
                       ELSE "Document processing failed: fromisoformat: argument must be str"]
             ELSE [success |-> TRUE, message |-> "Extraction successful"]

\* one pass of the loop of process_pending_documents, on the document
\* filename.  run: the ledger file, the disk, workflows/extracted and the
\* results so far.
ProcessOne(run, filename, input, t) ==
    IF <<ProcessingDir, filename>> \notin run.files
    THEN [run EXCEPT
             !.file = TransitionState(@, filename, "ERROR",
                                      "File not found", t).file,
             !.results = Append(@, [filename |-> filename,
                                    success |-> FALSE,
                                    message |-> "File not found"])]
    ELSE LET processed == process_document(input)
         IN  IF ~processed.success
             THEN [run EXCEPT
                      !.file = TransitionState(@, filename, "ERROR",
                                               processed.message, t).file,
                      !.results = Append(@, [filename |-> filename,
                                             success |-> FALSE,
                                             message |-> processed.message])]
             ELSE IF input.fault = "save"
             THEN [run EXCEPT
                      !.file = TransitionState(@, filename, "ERROR",
                                               "Failed to save results",
                                               t).file,
                      !.results =
                          Append(@, [filename |-> filename,
                                     success |-> FALSE,
                                     message |-> "Failed to save results"])]
             ELSE IF input.fault = "rename"
             THEN [run EXCEPT
                      !.file =
                          TransitionState(
                              TransitionState(@, filename, "EXTRACTED",
                                              None, t).file,
                              filename, "ERROR", "Failed to save results",
                              t).file,
                      !.outputs = @ \cup {<<t, filename>>},
                      !.results =
                          Append(@, [filename |-> filename,
                                     success |-> FALSE,
                                     message |-> "Failed to save results"])]
             ELSE [run EXCEPT
                      !.file = TransitionState(@, filename, "EXTRACTED",
                                               None, t).file,
                      !.files = ShutilMove(@, ProcessingDir, ProcessedDir,
                                           filename),
                      !.outputs = @ \cup {<<t, filename>>},
                      !.results = Append(@, [filename |-> filename,
                                             success |-> TRUE,
                                             message |-> "Extracted"])]

\* the loop leaving at the first document that fails
RECURSIVE ProcessLoopStopsAtFailure(_, _, _, _)
ProcessLoopStopsAtFailure(run, pending_files, inputs, t) ==
    IF \/ pending_files = <<>>
       \/ \E i \in 1..Len(run.results) : ~run.results[i].success
    THEN run
    ELSE ProcessLoopStopsAtFailure(
             ProcessOne(run, Head(pending_files),
                        inputs[Head(pending_files)], t),
             Tail(pending_files), inputs, t)

\* the loop of process_pending_documents over pending_files
RECURSIVE ProcessLoop(_, _, _, _)
ProcessLoop(run, pending_files, inputs, t) ==
    IF pending_files = <<>>
    THEN run
    ELSE ProcessLoop(ProcessOne(run, Head(pending_files),
                                inputs[Head(pending_files)], t),
                     Tail(pending_files), inputs, t)

----------------------------------------------------------------------------
(* The state machine *)

Procs == {"p1", "p2"}

\* a process that is in no call
IdleProc ==
    [pc |-> "idle", op |-> None, filename |-> None, new_state |-> None,
     error_message |-> None, read |-> NoFile, ret |-> None]

\* validate has not been called
NotValidated ==
    [outcome |-> "not_called", exception |-> None, flags |-> ValidationFlags]

\* the variables a WorkflowManager call of a single process leaves alone
others ==
    <<old_state, procs, batch, results, outputs, grant, validation,
      ai_response, parsed>>

\* the document was not handled
NoInput == [text |-> "none", grant_data |-> GrantData, fault |-> "none"]

\* process_pending_documents has not been called
NoBatch ==
    [limit |-> 0, pending_files |-> <<>>,
     inputs |-> [n \in Filenames |-> NoInput]]

\* no response has been parsed
NoResponse == [syntax |-> "invalid", data |-> JsonNull]

NotParsed ==
    [outcome |-> "not_called", exception |-> None, grant_data |-> GrantData]

OthersInit ==
    /\ old_state = None
    /\ procs = [p \in Procs |-> IdleProc]
    /\ batch = NoBatch
    /\ results = <<>>
    /\ outputs = {}
    /\ grant = GrantData
    /\ validation = NotValidated
    /\ ai_response = NoResponse
    /\ parsed = NotParsed

Init ==
    /\ status_file = NoFile
    /\ files \in SUBSET {<<PendingDir, "a.pdf">>}
    /\ now = 0
    /\ ops = 0
    /\ last = [op |-> "init", ret |-> None, outcome |-> None]
    /\ last_transition = [n \in Filenames |-> None]
    /\ OthersInit

\* the clock advances
Tick ==
    /\ now < MaxClock
    /\ now' = now + 1
    /\ last' = [op |-> "tick", ret |-> None, outcome |-> None]
    /\ UNCHANGED <<status_file, files, last_transition>>

register_document(filepath, metadata) ==
    /\ status_file' =
           save_workflow_status(
               RegisterDocument(status_file, filepath, metadata, now))
    /\ last' = [op |-> "register_document", ret |-> PathName(filepath),
                outcome |->
                    IF PathName(filepath)
                           \in DictKeys(get_workflow_status(status_file))
                    THEN "overwrote" ELSE "inserted"]
    /\ last_transition' =
           [last_transition EXCEPT ![PathName(filepath)] = None]
    /\ UNCHANGED <<files, now>>

transition_state(filename, new_state, error_message) ==
    \E r \in {TransitionState(status_file, filename, new_state,
                               error_message, now)} :
        /\ status_file' = r.file
        /\ last' = [op |-> "transition_state", ret |-> r.ret,
                    outcome |-> IF r.ret = RetTrue THEN "saved"
                                ELSE "not_found"]
        /\ last_transition' =
               IF r.ret = RetTrue
               THEN [last_transition EXCEPT ![filename] = new_state]
               ELSE last_transition
        /\ UNCHANGED <<files, now>>

move_document(filename, from_state, to_state) ==
    \E move_fails \in MoveFaults(files, filename, from_state, to_state) :
        \E r \in {MoveDocument(status_file, files, filename, from_state,
                                to_state, move_fails, now)} :
            /\ status_file' = r.file
            /\ files' = r.files
            /\ last' = [op |-> "move_document", ret |-> r.ret,
                        outcome |-> r.outcome]
            /\ last_transition' =
                   IF r.transition # None
                   THEN [last_transition EXCEPT ![filename] = r.transition]
                   ELSE last_transition
            /\ UNCHANGED now

cleanup_error_documents ==
    \E r \in {CleanupErrorDocuments(status_file, now)} :
        /\ status_file' = r.file
        /\ last' = [op |-> "cleanup_error_documents", ret |-> None,
                    outcome |-> IF r.reset = {} THEN "nothing" ELSE "reset"]
        /\ last_transition' =
               [n \in Filenames |->
                   IF n \in r.reset THEN "PENDING" ELSE last_transition[n]]
        /\ UNCHANGED <<files, now>>

----------------------------------------------------------------------------
(* Spec: the calls on one document, to any depth, with the one move the   *)
(* repository makes (trigger_ai_processing: PENDING to PROCESSING)         *)

OneName == {"a.pdf"}

PipelineMoves == {<<"PENDING", "PROCESSING">>}

\* the transitions the pipeline makes: to PROCESSING, to EXTRACTED, to ERROR
\* with a message
PairTransitions ==
    {<<"PROCESSING", None>>, <<"EXTRACTED", None>>, <<"ERROR", "bad format">>}

Next ==
    \/ Tick /\ UNCHANGED <<ops, others>>
    \/ \E filepath \in {p \in FilePaths : p.name \in OneName},
          metadata \in MetaArgs :
           register_document(filepath, metadata) /\ UNCHANGED <<ops, others>>
    \/ \E filename \in OneName, new_state \in WorkflowState,
          error_message \in ErrorArgs :
           transition_state(filename, new_state, error_message)
             /\ UNCHANGED <<ops, others>>
    \/ \E filename \in OneName, mv \in PipelineMoves :
           move_document(filename, mv[1], mv[2]) /\ UNCHANGED <<ops, others>>
    \/ cleanup_error_documents /\ UNCHANGED <<ops, others>>

Spec == Init /\ [][Next]_vars

----------------------------------------------------------------------------
(* SpecMove: move_document between every pair of states, on one document   *)
(* that is registered or not, at one clock value                           *)

NextMove ==
    \/ \E filepath \in {p \in FilePaths : p.name \in OneName} :
           register_document(filepath, None) /\ UNCHANGED <<ops, others>>
    \/ \E filename \in OneName, tr \in PairTransitions :
           transition_state(filename, tr[1], tr[2]) /\ UNCHANGED <<ops, others>>
    \/ \E filename \in OneName, from_state \in WorkflowState,
          to_state \in WorkflowState :
           move_document(filename, from_state, to_state) /\ UNCHANGED <<ops, others>>

InitMove ==
    /\ status_file = NoFile
    /\ files \in SUBSET ({PendingDir, "intake/processing"} \X OneName)
    /\ now = 0
    /\ ops = 0
    /\ last = [op |-> "init", ret |-> None, outcome |-> None]
    /\ last_transition = [n \in Filenames |-> None]
    /\ OthersInit

SpecMove == InitMove /\ [][NextMove]_vars

----------------------------------------------------------------------------
(* SpecPair: two documents, MaxOps calls, the transitions the pipeline     *)
(* makes                                                                   *)

InitPair ==
    /\ status_file = NoFile
    /\ files = {PendingDir} \X Filenames
    /\ now = 0
    /\ ops = 0
    /\ last = [op |-> "init", ret |-> None, outcome |-> None]
    /\ last_transition = [n \in Filenames |-> None]
    /\ OthersInit

NextPair ==
    \/ Tick /\ UNCHANGED <<ops, others>>
    \/ /\ ops < MaxOps
       /\ ops' = ops + 1
       /\ UNCHANGED others
       /\ \/ \E filepath \in {p \in FilePaths : p.dir = PendingDir},
                metadata \in MetaArgs :
                 register_document(filepath, metadata)
          \/ \E filename \in Filenames, tr \in PairTransitions :
                 transition_state(filename, tr[1], tr[2])
          \/ cleanup_error_documents

SpecPair == InitPair /\ [][NextPair]_vars

----------------------------------------------------------------------------
(* SpecCrash: Spec, and calls whose write of the ledger file stops part-way *)

\* register_document when the write in save_workflow_status stops after k
\* chunks: an OSError (caught and printed, the call returns as usual) or
\* the death of the process
register_document_interrupted(filepath, metadata, k) ==
    /\ status_file' =
           save_interrupted(
               RegisterDocument(status_file, filepath, metadata, now), k)
    /\ last' = [op |-> "register_document", ret |-> PathName(filepath),
                outcome |-> "write_interrupted"]
    /\ last_transition' =
           [last_transition EXCEPT ![PathName(filepath)] = None]
    /\ UNCHANGED <<files, now>>

\* transition_state of a known filename when the write stops after k chunks
transition_state_interrupted(filename, new_state, error_message, k) ==
    LET workflow_status == get_workflow_status(status_file)
    IN  /\ filename \in DictKeys(workflow_status)
        /\ status_file' =
               save_interrupted(
                   DictSet(workflow_status, filename,
                           TransitionedDocument(
                               DictGet(workflow_status, filename),
                               new_state, error_message, now)), k)
        /\ last' = [op |-> "transition_state", ret |-> RetTrue,
                    outcome |-> "write_interrupted"]
        /\ last_transition' =
               [last_transition EXCEPT ![filename] = new_state]
        /\ UNCHANGED <<files, now>>

\* the chunks written before the write stops: fewer than the whole text
WrittenChunks == 0..Len(get_workflow_status(status_file)) + 1

NextCrash ==
    \/ Next
    \/ \E filepath \in {p \in FilePaths : p.name \in OneName},
          metadata \in MetaArgs, k \in WrittenChunks :
           register_document_interrupted(filepath, metadata, k)
             /\ UNCHANGED <<ops, others>>
    \/ \E filename \in OneName, new_state \in WorkflowState,
          error_message \in ErrorArgs, k \in WrittenChunks :
           transition_state_interrupted(filename, new_state,
                                        error_message, k)
             /\ UNCHANGED <<ops, others>>

SpecCrash == Init /\ [][NextCrash]_vars

----------------------------------------------------------------------------
(* SpecGraph: one document taken from any state to any state, at one clock *)
(* value                                                                   *)

\* old_state of transition_state: the state the record is in when the call
\* loads it
OldState(file, filename) ==
    LET workflow_status == get_workflow_status(file)
    IN  IF filename \in DictKeys(workflow_status)
        THEN DictGet(workflow_status, filename).current_state
        ELSE None

NextGraph ==
    \/ \E filepath \in {p \in FilePaths : p.name \in OneName} :
           register_document(filepath, None) /\ UNCHANGED <<ops, others>>
    \/ \E filename \in OneName, new_state \in WorkflowState,
          error_message \in ErrorArgs :
           /\ transition_state(filename, new_state, error_message)
           /\ old_state' = OldState(status_file, filename)
           /\ UNCHANGED <<ops, procs, batch, results, outputs, grant,
                          validation, ai_response, parsed>>

SpecGraph == Init /\ [][NextGraph]_vars

----------------------------------------------------------------------------
(* SpecCrashPair: SpecPair, and registrations whose write of the ledger    *)
(* file stops part-way                                                     *)

NextCrashPair ==
    \/ NextPair
    \/ /\ ops < MaxOps
       /\ ops' = ops + 1
       /\ UNCHANGED others
       /\ \E filepath \in {p \in FilePaths : p.dir = PendingDir},
             k \in WrittenChunks :
              register_document_interrupted(filepath, None, k)

SpecCrashPair == InitPair /\ [][NextCrashPair]_vars

----------------------------------------------------------------------------
(* SpecRace: two processes, each with its own WorkflowManager, calling     *)
(* register_document and transition_state on their own filename.  A call   *)
(* takes two steps: it loads the ledger file, and later it saves the       *)
(* mapping it made from what it loaded.  Nothing locks the file between.   *)

\* the filename each process works on
ProcName == [p \in Procs |-> IF p = "p1" THEN "a.pdf" ELSE "b.pdf"]

\* a call that loads the ledger again when it saves
CallResultReloading(proc, t) ==
    IF proc.op = "register_document"
    THEN [saved |-> TRUE,
          file  |-> save_workflow_status(
                        RegisterDocument(
                            status_file,
                            [dir |-> PendingDir, name |-> proc.filename],
                            None, t)),
          ret   |-> proc.filename]
    ELSE LET r == TransitionState(status_file, proc.filename,
                                  proc.new_state, proc.error_message, t)
         IN  [saved |-> r.ret = RetTrue, file |-> r.file, ret |-> r.ret]

\* what a call does with the ledger it loaded: the file it writes, if it
\* writes one, and the value it returns
CallResult(proc, t) ==
    IF proc.op = "register_document"
    THEN [saved |-> TRUE,
          file  |-> save_workflow_status(
                        RegisterDocument(
                            proc.read,
                            [dir |-> PendingDir, name |-> proc.filename],
                            None, t)),
          ret   |-> proc.filename]
    ELSE LET r == TransitionState(proc.read, proc.filename,
                                  proc.new_state, proc.error_message, t)
         IN  [saved |-> r.ret = RetTrue, file |-> r.file, ret |-> r.ret]

\* process p enters a call and reads the ledger file
load_ledger(p, op, new_state, error_message) ==
    /\ procs[p].pc # "loaded"
    /\ procs' = [procs EXCEPT ![p] =
                    [pc |-> "loaded", op |-> op, filename |-> ProcName[p],
                     new_state |-> new_state,
                     error_message |-> error_message,
                     read |-> status_file, ret |-> None]]
    /\ UNCHANGED <<status_file, files, now, last, last_transition,
                   old_state, batch, results, outputs, grant, validation,
                   ai_response, parsed>>

\* process p writes the ledger file, if its call writes one, and returns
save_ledger(p) ==
    /\ procs[p].pc = "loaded"
    /\ \E r \in {CallResult(procs[p], now)} :
          /\ status_file' = IF r.saved THEN r.file ELSE status_file
          /\ procs' = [procs EXCEPT ![p].pc = "done", ![p].ret = r.ret]
    /\ UNCHANGED <<files, now, last, last_transition, old_state, batch,
                   results, outputs, grant, validation, ai_response,
                   parsed>>

NextRace ==
    \/ \E p \in Procs :
           /\ ops < MaxOps
           /\ ops' = ops + 1
           /\ load_ledger(p, "register_document", None, None)
    \/ \E p \in Procs, tr \in PairTransitions :
           /\ ops < MaxOps
           /\ ops' = ops + 1
           /\ load_ledger(p, "transition_state", tr[1], tr[2])
    \/ \E p \in Procs : save_ledger(p) /\ UNCHANGED ops

SpecRace == InitPair /\ [][NextRace]_vars

----------------------------------------------------------------------------
(* SpecBatch: two registered documents, in PROCESSING with or without      *)
(* their file or still pending, are processed in batches, at one clock     *)
(* value                                                                   *)

process_pending_documents(limit) ==
    LET pending_files ==
            get_next_documents_for_processing(status_file, "PROCESSING",
                                              limit)
        selected == {pending_files[i] : i \in 1..Len(pending_files)}
    IN  \E inputs \in [selected -> DocInputs] :
          \E r \in {ProcessLoop([file |-> status_file, files |-> files,
                                 outputs |-> outputs, results |-> <<>>],
                                pending_files, inputs, now)} :
            /\ status_file' = r.file
            /\ files' = r.files
            /\ outputs' = r.outputs
            /\ results' = r.results
            /\ batch' = [limit |-> limit, pending_files |-> pending_files,
                         inputs |->
                             [n \in Filenames |->
                                 IF n \in selected THEN inputs[n]
                                 ELSE NoInput]]
            /\ last' = [op |-> "process_pending_documents", ret |-> None,
                        outcome |-> IF pending_files = <<>>
                                    THEN "no_documents" ELSE "processed"]
            /\ last_transition' =
                   [n \in Filenames |->
                       IF n \in selected
                       THEN DictGet(get_workflow_status(r.file),
                                    n).current_state
                       ELSE last_transition[n]]
            /\ UNCHANGED now

BatchLimits == {1, BatchLimit}

agent_idle ==
    <<old_state, procs, grant, validation, ai_response, parsed>>

\* where a document stands when the batches begin: registered and waiting
\* in intake/pending, sent to PROCESSING with its file, or in PROCESSING
\* with its file gone
DocStarts == {"pending", "processing", "lost"}

\* the ledger after `first` and then `second` were registered (at 0 and at
\* t2), `first` was registered again at 1 if `again`, and the documents
\* that do not start pending were taken to PROCESSING at 1
StartLedger(first, second, t2, again, start) ==
    LET Pending(n) == [dir |-> PendingDir, name |-> n]
        f1 == save_workflow_status(
                  RegisterDocument(NoFile, Pending(first), None, 0))
        f2 == save_workflow_status(
                  RegisterDocument(f1, Pending(second), None, t2))
        f3 == IF again
              THEN save_workflow_status(
                       RegisterDocument(f2, Pending(first), None, 1))
              ELSE f2
        f4 == IF start[first] = "pending" THEN f3
              ELSE TransitionState(f3, first, "PROCESSING", None, 1).file
    IN  IF start[second] = "pending" THEN f4
        ELSE TransitionState(f4, second, "PROCESSING", None, 1).file

InitBatch ==
    /\ \E first \in Filenames, t2 \in 0..1, again \in BOOLEAN,
          start \in [Filenames -> DocStarts] :
           /\ status_file =
                  StartLedger(first, CHOOSE n \in Filenames : n # first,
                              t2, again, start)
           /\ files =
                  {<<PendingDir, n>> : n \in {x \in Filenames :
                                                 start[x] = "pending"}}
                    \cup {<<ProcessingDir, n>> :
                             n \in {x \in Filenames :
                                       start[x] = "processing"}}
           /\ last_transition =
                  [n \in Filenames |->
                      IF start[n] = "pending" THEN None ELSE "PROCESSING"]
    /\ now = 1
    /\ ops = 0
    /\ last = [op |-> "init", ret |-> None, outcome |-> None]
    /\ OthersInit

NextBatch ==
    \/ \E filename \in Filenames, mv \in PipelineMoves :
           move_document(filename, mv[1], mv[2]) /\ UNCHANGED <<ops, others>>
    \/ \E limit \in BatchLimits :
           process_pending_documents(limit)
             /\ UNCHANGED <<ops, agent_idle>>

SpecBatch == InitBatch /\ [][NextBatch]_vars

----------------------------------------------------------------------------
(* SpecValidate: GrantDataValidator.validate applied to one GrantData      *)

Date2024 == PyStr(<<"2", "0", "2", "4", "-", "0", "1", "-", "0", "1">>)

Date2026 == PyStr(<<"2", "0", "2", "6", "-", "1", "2", "-", "3", "1">>)

NotANumber == PyStr(<<"a", "b", "c">>)

\* grant_id, grant_name, funding_agency: absent, without a value, empty,
\* blank, or a text
TextFields ==
    {NoField, ExtractedField(PyNone, "high"),
     ExtractedField(PyStr(<<>>), "high"),
     ExtractedField(PyStr(<<" ", " ">>), "high"),
     ExtractedField(PyStr(<<"N">>), "high")}

AwardValues ==
    {PyInt(0), PyInt(0 - 5), PyInt(100000), PyInt(50000000),
     PyInt(60000000), NotANumber, PyStr(<<"0">>), PyStr(<<>>)}

AwardFields ==
    {NoField} \cup {ExtractedField(value, "medium") : value \in AwardValues}

\* principal_investigator: absent, or a TeamMember whose name has a text,
\* the empty text or no value
InvestigatorFields ==
    {NoField, TeamMember(PyStr(<<"D", "r">>)), TeamMember(PyStr(<<>>)),
     TeamMember(PyNone)}

DateFields ==
    {NoField, ExtractedField(Date2024, "medium"),
     ExtractedField(Date2026, "medium"),
     ExtractedField(PyStr(<<"s", "o", "o", "n">>), "medium"),
     ExtractedField(PyInt(20240101), "medium")}

TotalFields ==
    {NoField, ExtractedField(PyInt(0), "medium"),
     ExtractedField(PyInt(10000), "medium"),
     ExtractedField(PyStr(<<"1", "0", "0", "0", "0">>), "medium"),
     ExtractedField(NotANumber, "medium")}

PersonnelFields ==
    {NoField, ExtractedField(NotANumber, "medium")}
        \cup {ExtractedField(PyInt(n), "medium") :
                 n \in {8000, 8999, 9000, 11000, 11001}}

EquipmentFields == {NoField, ExtractedField(PyInt(1000), "medium")}

\* the validation_flags a GrantData carries before the call
EarlierFlags ==
    {ValidationFlags,
     [ValidationFlags EXCEPT !.missing_required_fields = <<"grant_id">>,
                             !.needs_human_review = TRUE]}

\* a GrantData with every required field but the principal investigator
NamedGrant ==
    [GrantData EXCEPT
        !.grant_id       = ExtractedField(PyStr(<<"N">>), "high"),
        !.grant_name     = ExtractedField(PyStr(<<"N">>), "high"),
        !.funding_agency = ExtractedField(PyStr(<<"N">>), "high"),
        !.award_amount   = ExtractedField(PyInt(100000), "medium")]

RequiredInputs ==
    {[GrantData EXCEPT !.grant_id = id, !.grant_name = other,
                       !.funding_agency = other, !.award_amount = award,
                       !.principal_investigator = investigator] :
        id \in TextFields, other \in TextFields, award \in AwardFields,
        investigator \in InvestigatorFields}

DateInputs ==
    {[NamedGrant EXCEPT !.timeline = Timeline(start_date, end_date)] :
        start_date \in DateFields, end_date \in DateFields}

BudgetInputs ==
    {[NamedGrant EXCEPT
         !.budget = BudgetSummary(total, personnel, equipment)] :
        total \in TotalFields, personnel \in PersonnelFields,
        equipment \in EquipmentFields}

\* inputs that raise every kind of flag together or none of them
ReviewInputs ==
    {[NamedGrant EXCEPT
         !.grant_id = id,
         !.award_amount = ExtractedField(amount, confidence),
         !.timeline = Timeline(ExtractedField(Date2024, "medium"),
                               ExtractedField(end_date, "medium")),
         !.budget = BudgetSummary(ExtractedField(PyInt(10000), "medium"),
                                  personnel, NoField),
         !.validation_flags = earlier] :
        id \in {NoField, ExtractedField(PyStr(<<"N">>), "low")},
        amount \in {PyInt(100000), PyInt(0 - 5), NotANumber},
        confidence \in {"medium", "uncertain"},
        end_date \in {Date2024, Date2026},
        personnel \in {ExtractedField(PyInt(n), "medium") :
                          n \in {8000, 9000}},
        earlier \in EarlierFlags}

\* the confidence of top-level fields and of a field inside the timeline
ConfidenceInputs ==
    {[NamedGrant EXCEPT
         !.grant_id = ExtractedField(PyStr(<<"N">>), id_confidence),
         !.grant_type = grant_type,
         !.progress_notes = progress_notes,
         !.timeline = Timeline(ExtractedField(Date2024, date_confidence),
                               NoField)] :
        id_confidence \in ConfidenceLevel,
        grant_type \in {NoField}
                          \cup {ExtractedField(PyStr(<<"R">>), confidence) :
                                   confidence \in ConfidenceLevel},
        progress_notes \in {NoField, ExtractedField(PyNone, "low")},
        date_confidence \in {"medium", "low"}}

GrantInputs ==
    RequiredInputs \cup DateInputs \cup BudgetInputs \cup ReviewInputs
        \cup ConfidenceInputs \cup {SimulatedGrantData}

InitValidate ==
    /\ status_file = NoFile
    /\ files = {}
    /\ now = 0
    /\ ops = 0
    /\ last = [op |-> "init", ret |-> None, outcome |-> None]
    /\ last_transition = [n \in Filenames |-> None]
    /\ old_state = None
    /\ procs = [p \in Procs |-> IdleProc]
    /\ batch = NoBatch
    /\ results = <<>>
    /\ outputs = {}
    /\ grant \in GrantInputs
    /\ validation = NotValidated
    /\ ai_response = NoResponse
    /\ parsed = NotParsed

\* GrantDataValidator().validate(grant)
call_validate ==
    /\ validation.outcome = "not_called"
    /\ validation' = validate(grant)
    /\ UNCHANGED <<status_file, files, now, ops, last, last_transition,
                   old_state, procs, batch, results, outputs, grant,
                   ai_response, parsed>>

NextValidate == call_validate

SpecValidate == InitValidate /\ [][NextValidate]_vars

----------------------------------------------------------------------------
(* SpecPipeline: one document is uploaded, sent to processing, processed   *)
(* in batches, transitioned and cleaned up, in any order, at one clock     *)
(* value                                                                   *)

\* upload_file: the file is copied into intake/pending under a name that
\* is not in use there and registered; a file that does not pass
\* validate_file is not copied and not registered
upload_file(unique_filename, metadata, is_valid) ==
    /\ <<PendingDir, unique_filename>> \notin files
    /\ files' = IF is_valid
                THEN files \cup {<<PendingDir, unique_filename>>}
                ELSE files
    /\ status_file' =
           IF is_valid
           THEN save_workflow_status(
                    RegisterDocument(
                        status_file,
                        [dir |-> PendingDir, name |-> unique_filename],
                        metadata, now))
           ELSE status_file
    /\ last' = [op |-> "upload_file",
                ret |-> IF is_valid THEN RetTrue ELSE RetFalse,
                outcome |-> IF is_valid THEN "uploaded" ELSE "invalid_file"]
    /\ last_transition' =
           IF is_valid
           THEN [last_transition EXCEPT ![unique_filename] = None]
           ELSE last_transition
    /\ UNCHANGED now

\* trigger_ai_processing(filename)
trigger_ai_processing(filename) ==
    move_document(filename, "PENDING", "PROCESSING")

InitPipeline ==
    /\ status_file = NoFile
    /\ files = {}
    /\ now = 0
    /\ ops = 0
    /\ last = [op |-> "init", ret |-> None, outcome |-> None]
    /\ last_transition = [n \in Filenames |-> None]
    /\ OthersInit

NextPipeline ==
    \/ \E unique_filename \in OneName, is_valid \in BOOLEAN :
           upload_file(unique_filename, "m1", is_valid)
             /\ UNCHANGED <<ops, others>>
    \/ \E filename \in OneName :
           trigger_ai_processing(filename) /\ UNCHANGED <<ops, others>>
    \/ \E filename \in OneName, tr \in PairTransitions :
           transition_state(filename, tr[1], tr[2])
             /\ UNCHANGED <<ops, others>>
    \/ \E limit \in BatchLimits :
           process_pending_documents(limit)
             /\ UNCHANGED <<ops, agent_idle>>
    \/ cleanup_error_documents /\ UNCHANGED <<ops, others>>

SpecPipeline == InitPipeline /\ [][NextPipeline]_vars

----------------------------------------------------------------------------
(* SpecRetry: the pipeline as its scripts drive it, on one document:       *)
(* upload, trigger, batch processing and cleanup, at one clock value       *)

NextRetry ==
    \/ \E unique_filename \in OneName, is_valid \in BOOLEAN :
           upload_file(unique_filename, "m1", is_valid)
             /\ UNCHANGED <<ops, others>>
    \/ \E filename \in OneName :
           trigger_ai_processing(filename) /\ UNCHANGED <<ops, others>>
    \/ \E limit \in BatchLimits :
           process_pending_documents(limit)
             /\ UNCHANGED <<ops, agent_idle>>
    \/ cleanup_error_documents /\ UNCHANGED <<ops, others>>

SpecRetry == InitPipeline /\ [][NextRetry]_vars

----------------------------------------------------------------------------
(* SpecParse: parse_ai_response applied to one response, and validate      *)
(* applied to the GrantData it returns, as process_document does           *)

\* a JSON object with one member
JsonMember(key, val) == JsonObject(<<[key |-> key, val |-> val]>>)

\* the values and the confidences a leaf of a response carries
LeafValues == {JsonNull, JsonString(<<"G">>), JsonNumber(5)}

LeafConfidences ==
    {JsonNull, JsonNumber(1), JsonString(Spelling["high"]),
     JsonString(<<"H", "I", "G", "H">>), JsonString(<<"s", "u", "r", "e">>)}

\* what a response holds where a leaf is expected
LeafShapes ==
    {JsonNull, JsonString(<<"G">>), JsonArray(<<>>), JsonObject(<<>>),
     JsonMember("value", JsonString(<<"G">>))}
        \cup {JsonField(value, confidence) :
                 value \in LeafValues, confidence \in LeafConfidences}

\* what a response holds where timeline, project or budget is expected
SectionShapes(field_name) ==
    {JsonNull, JsonNumber(5), JsonString(<<"s", "o", "o", "n">>),
     JsonString(Spelling[field_name]), JsonArray(<<>>), JsonObject(<<>>)}
        \cup {JsonMember(field_name, leaf) : leaf \in LeafShapes}

InvestigatorShapes ==
    SectionShapes("name")
        \cup {JsonObject(<<[key |-> "name",
                            val |-> JsonField(JsonString(<<"D", "r">>),
                                              JsonString(Spelling["high"]))],
                           [key |-> "role", val |-> role]>>) :
                 role \in LeafShapes}

\* responses that are no JSON, JSON that is no object, and objects with one
\* member of every shape
ResponseInputs ==
    {NoResponse, SimulatedResponse}
      \cup {[syntax |-> "valid", data |-> data] :
               data \in
                 {JsonNull, JsonNumber(42), JsonString(<<"a", "b", "c">>),
                  JsonString(Spelling["grant_id"]), JsonArray(<<>>),
                  JsonArray(<<JsonString(Spelling["budget"])>>),
                  JsonObject(<<>>)}
                   \cup {JsonMember("grant_id", leaf) : leaf \in LeafShapes}
                   \cup {JsonMember("timeline", section) :
                            section \in SectionShapes("project_end_date")}
                   \cup {JsonMember("principal_investigator", section) :
                            section \in InvestigatorShapes}
                   \cup {JsonMember("project", section) :
                            section \in SectionShapes("abstract")}
                   \cup {JsonMember("budget", section) :
                            section \in SectionShapes("total")}}

InitParse ==
    /\ status_file = NoFile
    /\ files = {}
    /\ now = 0
    /\ ops = 0
    /\ last = [op |-> "init", ret |-> None, outcome |-> None]
    /\ last_transition = [n \in Filenames |-> None]
    /\ old_state = None
    /\ procs = [p \in Procs |-> IdleProc]
    /\ batch = NoBatch
    /\ results = <<>>
    /\ outputs = {}
    /\ grant = GrantData
    /\ validation = NotValidated
    /\ ai_response \in ResponseInputs
    /\ parsed = NotParsed

\* grant_data = self.parse_ai_response(ai_response)
call_parse_ai_response ==
    /\ parsed.outcome = "not_called"
    /\ parsed' = parse_ai_response(ai_response)
    /\ grant' = parsed'.grant_data
    /\ UNCHANGED <<status_file, files, now, ops, last, last_transition,
                   old_state, procs, batch, results, outputs, validation,
                   ai_response>>

\* grant_data.validation_flags = validator.validate(grant_data)
validate_parsed ==
    /\ parsed.outcome = "returned"
    /\ call_validate

NextParse ==
    \/ call_parse_ai_response
    \/ validate_parsed

SpecParse == InitParse /\ [][NextParse]_vars

----------------------------------------------------------------------------
(* The claims *)

\* the mapping the ledger file holds, as the next call will load it
Ledger == get_workflow_status(status_file)

LedgerNames == DictKeys(Ledger)

Doc(filename) == DictGet(Ledger, filename)

\* C1: after any calls, a registered document's current_state read back
\* from the ledger is the new_state of the last transition_state call on it
\* that returned True, and no call lowers a document's updated_at.
StateIsLastTransitionAndUpdatedAtGrows ==
    [][\A old \in {Ledger}, new \in {Ledger'} :
           /\ \A n \in Filenames :
                 last_transition'[n] # None
                     => /\ n \in DictKeys(new)
                        /\ DictGet(new, n).current_state = last_transition'[n]
           /\ \A n \in DictKeys(old) \cap DictKeys(new) :
                 DictGet(new, n).updated_at >= DictGet(old, n).updated_at]_vars

\* C1 witness: a transition was recorded after the clock moved on
TransitionedLater ==
    /\ last.op = "transition_state"
    /\ last.ret = RetTrue
    /\ last_transition["a.pdf"] = "EXTRACTED"
    /\ "a.pdf" \in LedgerNames
    /\ Doc("a.pdf").updated_at > Doc("a.pdf").created_at

\* C2: after move_document(filename, from_state, to_state) between two
\* different states, the ledger has filename in to_state if and only if
\* the file was relocated.
MovedIffLedgerInToState ==
    [][last'.op = "move_document"
        => \A new \in {Ledger'} :
            \A filename \in Filenames, from_state \in WorkflowState :
              \A to_state \in WorkflowState \ {from_state} :
                move_document(filename, from_state, to_state)
                  => ((/\ filename \in DictKeys(new)
                       /\ DictGet(new, filename).current_state = to_state)
                      <=> last'.outcome = "moved")]_vars

\* C3: a move_document of a registered filename that fails returns False
\* and leaves the record in ERROR with a non-empty error_message.
FailedMoveLeavesError ==
    [][last'.op = "move_document"
        => \A old \in {Ledger}, new \in {Ledger'} :
            \A filename \in DictKeys(old), from_state \in WorkflowState,
               to_state \in WorkflowState :
                (/\ move_document(filename, from_state, to_state)
                 /\ last'.outcome # "moved")
                  => /\ last'.ret = RetFalse
                     /\ filename \in DictKeys(new)
                     /\ DictGet(new, filename).current_state = "ERROR"
                     /\ DictGet(new, filename).error_message
                            \notin {None, ""}]_vars

\* C4 as stated: whenever from_state or to_state is not PENDING or
\* PROCESSING, move_document fails and moves no file.
MoveOnlyBetweenPendingAndProcessing ==
    [][last'.op = "move_document"
        => \A filename \in Filenames, from_state \in WorkflowState,
              to_state \in WorkflowState :
               (/\ move_document(filename, from_state, to_state)
                /\ ~({from_state, to_state} \subseteq
                        {"PENDING", "PROCESSING"}))
                 => /\ last'.ret = RetFalse
                    /\ files' = files]_vars

\* C4 as amended: move_document ends with the invalid-state outcome exactly
\* when from_state or to_state is COMPLETED or ERROR, the two states
\* without a directory, and then it returns False, moves no file and leaves
\* the ledger file as it was.
MoveRejectsStatesWithoutDirectory ==
    [][last'.op = "move_document"
        => \A filename \in Filenames, from_state \in WorkflowState,
              to_state \in WorkflowState :
               move_document(filename, from_state, to_state)
                 => /\ last'.outcome = "invalid_state"
                          <=> ({from_state, to_state}
                                  \cap {"COMPLETED", "ERROR"} # {})
                    /\ last'.outcome = "invalid_state"
                          => /\ last'.ret = RetFalse
                             /\ files' = files
                             /\ status_file' = status_file]_vars

\* C4 witness: a move was refused for its states while the file lay in
\* the pending directory
MoveRefusedForState ==
    /\ last.op = "move_document"
    /\ last.outcome = "invalid_state"
    /\ <<PendingDir, "a.pdf">> \in files

\* C5: cleanup_error_documents puts every record that was in ERROR into
\* PENDING with no error_message, and leaves no record in ERROR.
CleanupResetsEveryError ==
    [][(last'.op = "cleanup_error_documents" /\ cleanup_error_documents)
        => \A old \in {Ledger}, new \in {Ledger'} :
              /\ \A n \in DictKeys(old) :
                    DictGet(old, n).current_state = "ERROR"
                        => /\ n \in DictKeys(new)
                           /\ DictGet(new, n).current_state = "PENDING"
                           /\ DictGet(new, n).error_message = None
              /\ \A n \in DictKeys(new) :
                    DictGet(new, n).current_state # "ERROR"]_vars

\* C5 witness: one cleanup has reset both documents from ERROR
CleanupResetBoth ==
    /\ last.op = "cleanup_error_documents"
    /\ last.outcome = "reset"
    /\ \A n \in Filenames :
          /\ last_transition[n] = "PENDING"
          /\ n \in LedgerNames
          /\ Doc(n).current_state = "PENDING"

\* C6: transition_state on a filename that is not in the ledger returns
\* False, creates no record for it and leaves the ledger file as it was.
TransitionOfUnknownNameChangesNothing ==
    [][last'.op = "transition_state"
        => \A filename \in Filenames, new_state \in WorkflowState,
              error_message \in ErrorArgs :
               (/\ filename \notin LedgerNames
                /\ transition_state(filename, new_state, error_message))
                 => /\ last'.ret = RetFalse
                    /\ filename \notin LedgerNames'
                    /\ status_file' = status_file]_vars

\* C6 witness: a transition was refused while the ledger was empty
TransitionRefused ==
    /\ last.op = "transition_state"
    /\ last.ret = RetFalse
    /\ "a.pdf" \notin LedgerNames

\* C7: a record has a non-empty error_message only if it is in ERROR.
ErrorMessageOnlyInError ==
    \A n \in LedgerNames :
        Doc(n).error_message \notin {None, ""}
            => Doc(n).current_state = "ERROR"

\* C8: register_document leaves exactly one record under the file's name:
\* PENDING, created_at = updated_at, the metadata supplied, no
\* error_message, nothing kept of an earlier record; and no name is ever
\* the key of two records.
RegisterOverwritesWithFreshRecord ==
    [][\A new \in {Ledger'} :
        /\ last'.op = "register_document"
            => \A filepath \in FilePaths, metadata \in MetaArgs :
                  register_document(filepath, metadata)
                    => /\ Cardinality({i \in 1..Len(new) :
                                          new[i].key = filepath.name}) = 1
                       /\ DictGet(new, filepath.name) =
                             [filename      |-> filepath.name,
                              original_path |-> filepath,
                              current_state |-> "PENDING",
                              created_at    |-> now,
                              updated_at    |-> now,
                              metadata      |-> IF metadata = None
                                                THEN EmptyMeta ELSE metadata,
                              error_message |-> None]
        /\ \A i, j \in 1..Len(new) : new[i].key = new[j].key => i = j]_vars

\* C8 witness: a registration replaced an earlier record, at a later time
RegisteredOverEarlierRecord ==
    /\ last.op = "register_document"
    /\ last.outcome = "overwrote"
    /\ Doc("a.pdf").created_at > 0

\* C9: the documents returned for a state are in ascending created_at
\* order, and documents with equal created_at in ascending filename order.
NextDocumentsByCreatedAtThenName ==
    \A state \in WorkflowState :
        LET names == get_next_documents_for_processing(status_file, state,
                                                       DefaultLimit)
        IN  \A i, j \in 1..Len(names) :
                i < j =>
                    \/ Doc(names[i]).created_at < Doc(names[j]).created_at
                    \/ /\ Doc(names[i]).created_at = Doc(names[j]).created_at
                       /\ NameRank[names[i]] < NameRank[names[j]]

\* C10: the ledger file, when it exists, always holds a complete mapping.
LedgerFileAlwaysComplete ==
    status_file.exists => JsonValid(status_file.text)

\* the filenames whose entries the ledger file holds, parseable or not
PersistedNames(file) ==
    {file.text[i].key :
        i \in {j \in 1..Len(file.text) : file.text[j].tok = "entry"}}

\* C11: get_workflow_status returns an empty mapping when there is no
\* ledger file, and when the file exists but cannot be parsed it ends with
\* an outcome that is distinct from the empty mapping.
CorruptLedgerLoadIsNotEmptyMapping ==
    /\ get_workflow_status(NoFile) = <<>>
    /\ (status_file.exists /\ ~JsonValid(status_file.text))
           => get_workflow_status(status_file) # <<>>

\* C12: no call that completes removes a filename from the persisted
\* ledger, also when the call loads a ledger file that cannot be parsed.
PersistedNamesOnlyGrow ==
    [][last'.outcome # "write_interrupted"
          => PersistedNames(status_file) \subseteq
                 PersistedNames(status_file')]_vars

\* C13: nothing protects the load-mutate-save cycle: a call that succeeds
\* writes, for every filename other than its own, exactly the record it
\* loaded when it began, so that what another process saved in between is
\* lost (last save wins).
SaveWritesBackWhatTheCallLoaded ==
    [][\A p \in Procs :
          (/\ procs[p].pc = "loaded"
           /\ procs'[p].pc = "done"
           /\ procs'[p].ret # RetFalse)
             => \A loaded \in {get_workflow_status(procs[p].read)},
                   new \in {Ledger'} :
                    /\ ProcName[p] \in DictKeys(new)
                    /\ \A n \in Filenames \ {ProcName[p]} :
                          /\ n \in DictKeys(new) <=> n \in DictKeys(loaded)
                          /\ n \in DictKeys(new)
                                => DictGet(new, n) = DictGet(loaded, n)]_vars

\* C13 witness: both processes registered their document and were told so,
\* and the ledger holds only the document of the one that saved last
RegistrationLostToLaterSave ==
    /\ \A p \in Procs :
          /\ procs[p].pc = "done"
          /\ procs[p].op = "register_document"
          /\ procs[p].ret = ProcName[p]
    /\ LedgerNames = {"b.pdf"}

\* C14: no transition graph is enforced: whatever state a registered
\* document is in, transition_state to any of the seven states returns
\* True and leaves the document in that state.
EveryTransitionOfARegisteredNameSucceeds ==
    [][last'.op = "transition_state"
          => \A filename \in OneName, new_state \in WorkflowState,
                error_message \in ErrorArgs :
                 (/\ filename \in LedgerNames
                  /\ transition_state(filename, new_state, error_message))
                    => \A new \in {Ledger'} :
                          /\ last'.ret = RetTrue
                          /\ DictGet(new, filename).current_state
                                = new_state]_vars

\* C14 witness: a document in COMPLETED was taken back to PENDING
CompletedTakenBackToPending ==
    /\ last.op = "transition_state"
    /\ last.ret = RetTrue
    /\ old_state = "COMPLETED"
    /\ Doc("a.pdf").current_state = "PENDING"

\* C15: process_pending_documents takes the documents in PROCESSING in
\* created_at order, up to its limit, and handles each of them whether or
\* not an earlier one failed: it returns one result per selected document,
\* in that order, and leaves each selected document in EXTRACTED, or in
\* ERROR with a non-empty error_message.
BatchHandlesEverySelectedDocument ==
    [][last'.op = "process_pending_documents"
          => \A old \in {Ledger}, new \in {Ledger'},
                pending_files \in {batch'.pending_files} :
                LET waiting ==
                        {n \in DictKeys(old) :
                            DictGet(old, n).current_state = "PROCESSING"}
                    selected ==
                        {pending_files[i] : i \in 1..Len(pending_files)}
                IN  /\ selected \subseteq waiting
                    /\ Len(pending_files)
                          = Min(batch'.limit, Cardinality(waiting))
                    /\ \A i \in 1..Len(pending_files) :
                          /\ \A j \in (i + 1)..Len(pending_files) :
                                /\ pending_files[i] # pending_files[j]
                                /\ DictGet(old, pending_files[i]).created_at
                                     <= DictGet(old,
                                                pending_files[j]).created_at
                          /\ \A n \in waiting \ selected :
                                DictGet(old, pending_files[i]).created_at
                                  <= DictGet(old, n).created_at
                    /\ Len(results') = Len(pending_files)
                    /\ \A i \in 1..Len(pending_files) :
                          LET doc == DictGet(new, pending_files[i])
                          IN  /\ results'[i].filename = pending_files[i]
                              /\ doc.current_state \in {"EXTRACTED", "ERROR"}
                              /\ results'[i].success
                                    <=> doc.current_state = "EXTRACTED"
                              /\ doc.current_state = "ERROR"
                                    => doc.error_message \notin {None, ""}]_vars

\* C15 witness: the first document of a batch failed and the second was
\* extracted
BatchWentOnAfterFailure ==
    /\ last.op = "process_pending_documents"
    /\ Len(results) = 2
    /\ ~results[1].success
    /\ results[2].success
    /\ Doc(results[1].filename).current_state = "ERROR"
    /\ Doc(results[2].filename).current_state = "EXTRACTED"

\* the flags the call of validate returned
Flags == validation.flags

\* a value counts as present when it is not None and not the empty text
HasValue(value) ==
    \/ value.type = "int"
    \/ value.type = "str" /\ value.chars # <<>>

SeqToSet(seq) == {seq[i] : i \in 1..Len(seq)}

\* C16: validate never raises: for every GrantData, also with a principal
\* investigator present, with dates that are no strings or with numbers
\* that do not parse, the call returns ValidationFlags.
ValidateNeverRaises == validation.outcome # "raised"

\* the required fields that lack a present value, a numeric 0 counting as
\* present and the principal investigator standing for its name
FieldsWithoutValue ==
    {field_name \in {"grant_id", "grant_name", "funding_agency",
                     "award_amount"} :
        ~(IsSet(grant[field_name]) /\ HasValue(grant[field_name].value))}
      \cup (IF /\ IsSet(grant.principal_investigator)
                /\ HasValue(grant.principal_investigator.name)
             THEN {} ELSE {"principal_investigator"})

\* C17: missing_required_fields lists exactly the required fields (grant
\* id, grant name, funding agency, award amount, principal investigator
\* name) that lack a present, non-empty value; an award amount of 0 is
\* present.
MissingFieldsAreThoseWithoutValue ==
    validation.outcome = "returned"
        => SeqToSet(Flags.missing_required_fields) = FieldsWithoutValue

\* C18: needs_human_review of a result is true exactly when its
\* missing_required_fields, its inconsistent_dates or its
\* budget_calculation_errors is non-empty or its suspicious_values has more
\* than 2 entries, whatever validation_flags the input carried.
ReviewVerdictFollowsFromOwnFlags ==
    validation.outcome = "returned"
        => (Flags.needs_human_review
              <=> \/ Flags.missing_required_fields # <<>>
                  \/ Flags.inconsistent_dates # <<>>
                  \/ Flags.budget_calculation_errors # <<>>
                  \/ Len(Flags.suspicious_values) > 2)

\* C18 witness: the input carried flags naming grant_id and the result
\* names only the principal investigator and asks for review
VerdictIgnoresEarlierFlags ==
    /\ validation.outcome = "returned"
    /\ grant.validation_flags.missing_required_fields = <<"grant_id">>
    /\ Flags.missing_required_fields = <<"principal_investigator">>
    /\ Flags.inconsistent_dates = <<>>
    /\ Flags.budget_calculation_errors = <<>>
    /\ Flags.needs_human_review

\* C19: when budget.total is present and numeric, 0 included,
\* budget_calculation_errors holds a mismatch error naming both figures if
\* and only if the total and the sum of the numeric components differ by
\* more than 1000; when it is present and not numeric it holds exactly one
\* invalid-format error.
BudgetErrorIffOffByMoreThanTolerance ==
    (/\ validation.outcome = "returned"
     /\ IsSet(grant.budget.total)
     /\ HasValue(grant.budget.total.value))
        => LET total == float(grant.budget.total.value)
               sum   == CalculatedTotal(grant.budget, BudgetFields)
           IN  Flags.budget_calculation_errors =
                   IF total.exception # None
                   THEN <<Message("Invalid budget total format",
                                  <<>>, <<>>)>>
                   ELSE IF Abs(total.num - sum) > 1000
                   THEN <<Message(
                            "Budget total doesn't match sum of components",
                            <<total.num, sum>>, <<>>)>>
                   ELSE <<>>

AwardMessages ==
    {"Award amount is zero or negative",
     "Award amount seems unusually high",
     "Award amount is not a valid number"}

\* C20: for a present award_amount, suspicious_values holds exactly one
\* award entry: 'zero or negative' when the amount is at most 0, 'unusually
\* high' when it is above 50,000,000, 'not a valid number' when it is not
\* numeric; and none when the amount is above 0 and at most 50,000,000.
AwardAmountFlaggedByRange ==
    (/\ validation.outcome = "returned"
     /\ IsSet(grant.award_amount)
     /\ HasValue(grant.award_amount.value))
        => LET amount == float(grant.award_amount.value)
               about_award ==
                   SelectSeq(Flags.suspicious_values,
                             LAMBDA message : message.text \in AwardMessages)
           IN  about_award =
                   IF amount.exception # None
                   THEN <<Message("Award amount is not a valid number",
                                  <<>>, <<>>)>>
                   ELSE IF amount.num <= 0
                   THEN <<Message("Award amount is zero or negative",
                                  <<>>, <<>>)>>
                   ELSE IF amount.num > 50000000
                   THEN <<Message("Award amount seems unusually high",
                                  <<>>, <<>>)>>
                   ELSE <<>>

LowConfidenceEntries ==
    SelectSeq(Flags.suspicious_values,
              LAMBDA message : message.text = "Low confidence extraction for")

\* C22: suspicious_values holds exactly one combined entry naming every
\* top-level extracted field whose confidence is LOW or UNCERTAIN when there
\* is such a field, and no such entry when there is none.
OneCombinedLowConfidenceEntry ==
    validation.outcome = "returned"
        => LET low ==
                   {field_name \in SeqToSet(ExtractedFieldAttributes) :
                       /\ grant[field_name].class = "ExtractedField"
                       /\ grant[field_name].confidence
                              \in {"low", "uncertain"}}
           IN  IF low = {}
               THEN LowConfidenceEntries = <<>>
               ELSE /\ Len(LowConfidenceEntries) = 1
                    /\ SeqToSet(LowConfidenceEntries[1].names) = low
                    /\ Len(LowConfidenceEntries[1].names) = Cardinality(low)

\* C22 witness: three low-confidence fields were named in one entry
ThreeFieldsInOneEntry ==
    /\ validation.outcome = "returned"
    /\ Len(LowConfidenceEntries) = 1
    /\ Len(LowConfidenceEntries[1].names) = 3

\* C23: the validator applies one presence predicate: a required field is
\* reported missing exactly when it has no value that is non-null and, for
\* a text, non-empty after trimming; so a blank text is reported missing,
\* and so is a field without a value whatever its confidence.
RequiredFieldsUseTrimmedPresence ==
    LET Present(value) ==
            \/ value.type = "int"
            \/ /\ value.type = "str"
               /\ \E i \in 1..Len(value.chars) : value.chars[i] # " "
    IN  validation.outcome = "returned"
            => \A field_name \in
                      {"grant_id", "grant_name", "funding_agency"} :
                  field_name \in SeqToSet(Flags.missing_required_fields)
                      <=> ~(/\ IsSet(grant[field_name])
                            /\ Present(grant[field_name].value))

\* C24: parse_ai_response never raises for a malformed response: a
\* response that is no JSON, or JSON of the wrong shape (no object, a field
\* that is null or no object, a null or unknown confidence), yields a
\* GrantData.
ParseNeverRaises == parsed.outcome # "raised"

\* C25: transition_state changes only current_state, updated_at and
\* error_message of the record it names: the filename, original_path,
\* created_at and metadata of that record, every other record of the
\* ledger and the place of every file on disk stay as they were.
TransitionChangesOnlyTheNamedRecord ==
    [][last'.op = "transition_state"
          => \A old \in {Ledger}, new \in {Ledger'} :
                /\ files' = files
                /\ DictKeys(new) = DictKeys(old)
                /\ \A n \in DictKeys(old) :
                      /\ \A kept \in {"filename", "original_path",
                                       "created_at", "metadata"} :
                            DictGet(new, n)[kept] = DictGet(old, n)[kept]
                      /\ DictGet(new, n) # DictGet(old, n)
                            => /\ last'.ret = RetTrue
                               /\ last_transition'[n]
                                     = DictGet(new, n).current_state
                               /\ \A other \in DictKeys(old) \ {n} :
                                     DictGet(new, other)
                                         = DictGet(old, other)]_vars

\* C25 witness: a.pdf, registered with metadata, was taken to EXTRACTED
\* after the clock moved on, while b.pdf lay in ERROR with its message
TransitionedBesideAnotherRecord ==
    /\ last.op = "transition_state"
    /\ last.ret = RetTrue
    /\ LedgerNames = Filenames
    /\ Doc("a.pdf").current_state = "EXTRACTED"
    /\ Doc("a.pdf").metadata = "m1"
    /\ Doc("a.pdf").updated_at = now
    /\ Doc("a.pdf").created_at < now
    /\ Doc("b.pdf").current_state = "ERROR"
    /\ Doc("b.pdf").error_message = "bad format"
    /\ Doc("b.pdf").updated_at < now

\* C26: in process_pending_documents, a document in PROCESSING whose file
\* is there, whose text is not blank and whose response parses to a
\* well-formed GrantData with a principal investigator (the simulated
\* response) ends in EXTRACTED, with its extraction written and its file
\* in the processed directory.
WellFormedDocumentEndsExtracted ==
    [][last'.op = "process_pending_documents"
          => \A new \in {Ledger'} :
                \A n \in SeqToSet(batch'.pending_files) :
                    (/\ <<ProcessingDir, n>> \in files
                     /\ batch'.inputs[n] =
                            [text |-> "text",
                             grant_data |-> SimulatedGrantData,
                             fault |-> "none"])
                        => /\ DictGet(new, n).current_state = "EXTRACTED"
                           /\ \E output \in outputs' : output[2] = n
                           /\ <<ProcessedDir, n>> \in files'
                           /\ <<ProcessingDir, n>> \notin files']_vars

\* C27: once cleanup_error_documents has reset to PENDING a document that
\* process_pending_documents took from PROCESSING to ERROR, the next
\* move_document(filename, PENDING, PROCESSING), unless the move itself
\* raises, returns True and leaves the document in PROCESSING.
RetryAfterCleanupSucceeds ==
    [][\A n \in OneName :
          (/\ last.op = "cleanup_error_documents"
           /\ last.outcome = "reset"
           /\ last_transition[n] = "PENDING"
           /\ \E i \in 1..Len(results) :
                  results[i].filename = n /\ ~results[i].success
           /\ last'.op = "move_document"
           /\ last'.outcome # "move_error")
            => \A new \in {Ledger'} :
                  /\ last'.ret = RetTrue
                  /\ DictGet(new, n).current_state = "PROCESSING"]_vars

\* C28: after any calls of upload_file, move_document, transition_state,
\* process_pending_documents and cleanup_error_documents, every document
\* recorded as PENDING has its file in the pending directory and every
\* document recorded as PROCESSING has its file in the processing directory.
LedgerAgreesWithDirectories ==
    \A n \in LedgerNames :
        /\ Doc(n).current_state = "PENDING" => <<PendingDir, n>> \in files
        /\ Doc(n).current_state = "PROCESSING"
              => <<ProcessingDir, n>> \in files

\* C29: the flags validate returns hold at most two suspicious values, at
\* most one of them about the award amount and at most one about low
\* confidence, so needs_human_review is true exactly when a required field
\* is missing or there is a date flag or a budget calculation error.
AtMostTwoSuspiciousValues ==
    validation.outcome = "returned"
        => /\ Len(Flags.suspicious_values) <= 2
           /\ Len(LowConfidenceEntries) <= 1
           /\ Len(Flags.suspicious_values) - Len(LowConfidenceEntries) <= 1
           /\ Flags.needs_human_review
                  <=> \/ Flags.missing_required_fields # <<>>
                      \/ Flags.inconsistent_dates # <<>>
                      \/ Flags.budget_calculation_errors # <<>>

\* C29 witness: validate returned two suspicious values, one about the
\* award amount and one about low confidence
TwoSuspiciousValues ==
    /\ validation.outcome = "returned"
    /\ Len(Flags.suspicious_values) = 2
    /\ Len(LowConfidenceEntries) = 1
    /\ Len(LowConfidenceEntries[1].names) = 2

====
